---- MODULE Spec2Model ----
(***************************************************************************)
(* retro_state / historic_template: the historic state-write protocol      *)
(* (state_async_set), the HistoricEntity write path, the recorder worker   *)
(* (_run) and the InfluxDB exporter (_setup / event_to_json).              *)
(*                                                                         *)
(* Timestamps are naturals 1..MaxTime; NoneT (0) is Python's None.  A      *)
(* datetime is always truthy, so "x and y and x > y" in the source is      *)
(* "x # NoneT /\ y # NoneT /\ x > y" here.                                 *)
(***************************************************************************)
EXTENDS Integers, Sequences, FiniteSets, TLC

\* ------------------------------------------------------------------ bounds
MaxTime == 3
MaxWrites == 2
MaxEvents == 2
MaxPurges == 1
MaxKeepDays == 2
MaxPurgeInterval == 2
MaxAge == 200
PurgeNow == 300
FullWrites == 1
MaxUpdates == 2
MaxProbeFails == 1
MaxAttrs == 2
MaxCalls == 3
MaxParallel == 1

\* ------------------------------------------------------------- vocabulary
NoneT == 0
Times == 1..MaxTime
OptTimes == {NoneT} \cup Times

PyNone == "<None>"
NoneId == PyNone
RawEntityIds == {"Sensor.Temp", NoneId}
EntityIds == {"sensor.temp"}

EVENT_STATE_CHANGED == "state_changed"
EVENT_HISTORIC_STATE_CHANGED == "historic_state_changed"
STATE_UNKNOWN == "unknown"
STATE_UNAVAILABLE == "unavailable"

\* values handed to state_async_set (already strings: str() of a str is itself)
Values == {"", "19.0", "20.0"}

\* attribute mappings, as insertion-ordered sequences of <<key, value>>
EmptyAttrs == << >>
UnitAttrs == << <<"unit_of_measurement", "W">> >>
\* attributes=None, told apart from every mapping
NoneAttrs == << <<PyNone, PyNone>> >>
\* what a caller may pass as `attributes`: None or a mapping
AttrInputs == {NoneAttrs, UnitAttrs}

VARIABLES
  now,        \* dt_util.utcnow()
  states,     \* StateMachine._states: entity_id -> State (NoState when absent)
  pc,         \* event loop: "idle", or "fire" inside state_async_set
  pending,    \* locals of the running state_async_set: the event to fire
  call,       \* the last write call: its arguments (`at`: the time it
              \* started, while it runs) and how it ended
  fired,      \* number of state events fired on the bus
  lastEvent,  \* the event the last state_async_set call fired, once fired
  calls,      \* number of state_async_set calls that passed line 477
  hist,       \* per entity: what the sequence of writes so far looked like
  ent,        \* one HistoricEntity: hass and entity_id as set by the platform
  writesLeft  \* remaining write calls

decVars == <<now, states, pc, pending, call, fired, lastEvent, calls, hist,
             ent, writesLeft>>

VARIABLES
  recOn,       \* the recorder integration is enabled (retro_state config)
  purgeOn,     \* self.keep_days and self.purge_interval
  sched,       \* the first purge time of lines 122-131: inputs and result
  rq,          \* Recorder.queue
  enq,         \* items put on the queue so far
  rpc,         \* position of the worker thread in _run
  rtries,      \* its local `tries`
  rcur,        \* the item it holds
  dequeued,    \* queue.get() calls that returned
  acked,       \* queue.task_done() calls
  dbevent,     \* its local `dbevent`: unbound, or the last Events object
  rstat,       \* what the worker did for the item in hand or just finished
  eventsTbl,   \* committed rows of Events
  statesTbl,   \* committed rows of States
  nextId,      \* next Events.event_id
  conn,        \* the storage connection: "none", "open", "closed"
  dbReady,     \* async_db_ready: "unset", "true", "false"
  notified,    \* persistent notifications created
  hassStarted, \* the hass_started future: "pending", "none", "shutdown"
  futError,    \* set_result was called on a resolved future
  hassState,   \* hass.state: "starting", "running", "stopping"
  stopL,       \* the EVENT_HOMEASSISTANT_STOP listener: "none", "armed", "due", "done"
  startL,      \* the EVENT_HOMEASSISTANT_START listener, likewise
  jobs,        \* callbacks handed to hass.add_job, not yet run
  purgeTimer,  \* pending point-in-time timers for async_purge
  purges,      \* purge_old_data runs
  evLeft,      \* events other components may still fire
  purgeLeft    \* timer expiries still to come

recCfg == <<recOn, purgeOn, sched>>
recQ == <<rq, enq>>
recW == <<rpc, rtries, rcur, dequeued, acked, dbevent, rstat>>
recDb == <<eventsTbl, statesTbl, nextId, conn, purges>>
recLife == <<dbReady, notified, hassStarted, futError, hassState, stopL,
             startL, jobs, purgeTimer>>
recBudget == <<evLeft, purgeLeft>>
recVars == <<recCfg, recQ, recW, recDb, recLife, recBudget>>

\* the retro_state exporter (influxdb.py)
VARIABLES
  infOn,      \* influxdb_integration is configured
  baseInf,    \* the base exporter worker: "absent", "running", "stopped"
  ipc,        \* where the exporter's setup or worker stands
  iwait,      \* wait_attempts of _async_setup
  iq,         \* the exporter worker's queue
  points,     \* the MeasurementPoints handed to the sink
  workers,    \* how many exporter workers _setup has started
  iStopL,     \* the listener for EVENT_HOMEASSISTANT_STOP of line 235
  sink,       \* the time-series sink: "down" or "up"
  ilogs,      \* warnings logged by _setup
  itimers,    \* pending call_later timers for _setup
  jx,         \* one application of event_to_json: configuration, event,
              \* and the point it returned
  sen,        \* one SensorHistoricTemplate: its templates and properties
  upd         \* async_device_update: the entities' _update_staged, the
              \* platform's parallel_updates and the calls under way

fnVars == <<jx, sen, upd>>
infCfg == <<infOn, fnVars>>
infSetup == <<workers, ilogs, itimers>>
infVars == <<infCfg, baseInf, ipc, iwait, iq, points, infSetup, iStopL, sink>>

vars == <<decVars, recVars, infVars>>

\* ------------------------------------------------------------- State value
NoState ==
  [entity_id |-> NoneId, state |-> "", attributes |-> EmptyAttrs,
   last_changed |-> NoneT, last_updated |-> NoneT, context |-> "none"]

\* str.lower() on the entity ids of the model
Lower(eid) == IF eid = "Sensor.Temp" THEN "sensor.temp" ELSE eid

\* `attributes or {}`
AttrsOf(a) == IF a = NoneAttrs \/ a = EmptyAttrs THEN EmptyAttrs ELSE a

\* homeassistant.core.State(...): last_updated or utcnow(); last_changed or
\* last_updated
State(entity_id, new_state, attributes, last_changed, last_updated, context, t) ==
  LET lu == IF last_updated # NoneT THEN last_updated ELSE t
  IN [entity_id |-> entity_id, state |-> new_state, attributes |-> attributes,
      last_changed |-> IF last_changed # NoneT THEN last_changed ELSE lu,
      last_updated |-> lu, context |-> context]

NoEvent ==
  [event_type |-> "none", entity_id |-> NoneId, old_state |-> NoState,
   new_state |-> NoState, time_fired |-> NoneT]

NoCall ==
  [op |-> "none", entity_id |-> NoneId, new_state |-> "",
   last_changed |-> NoneT, last_updated |-> NoneT, at |-> NoneT,
   prev |-> NoState, result |-> "none"]

NoHist == [n |-> 0, incr |-> TRUE, prevLu |-> NoneT, lcOk |-> TRUE]

\* ------------------------------------------------------- state_async_set
\* lines 482-485: the explicit last_changed is kept only when a state exists
ResolveLastChanged(old_state, last_changed) ==
  IF old_state = NoState THEN NoneT ELSE last_changed

\* variants of the decision with one comparison lost or loosened
IsHistoric_NoLastUpdated(old_state, last_changed, last_updated) ==
  /\ old_state # NoState
  /\ old_state.state # ""
  /\ old_state.last_changed # NoneT
  /\ last_changed # NoneT
  /\ old_state.last_changed > last_changed

IsHistoric_NoLastChanged(old_state, last_changed, last_updated) ==
  /\ old_state # NoState
  /\ old_state.state # ""
  /\ old_state.last_updated # NoneT
  /\ last_updated # NoneT
  /\ old_state.last_updated > last_updated

IsHistoric_NotStrict(old_state, last_changed, last_updated) ==
  /\ old_state # NoState
  /\ old_state.state # ""
  /\ \/ /\ old_state.last_updated # NoneT
        /\ last_updated # NoneT
        /\ old_state.last_updated >= last_updated
     \/ /\ old_state.last_changed # NoneT
        /\ last_changed # NoneT
        /\ old_state.last_changed >= last_changed

IsHistoric_LastChangedNotStrict(old_state, last_changed, last_updated) ==
  /\ old_state # NoState
  /\ old_state.state # ""
  /\ \/ /\ old_state.last_updated # NoneT
        /\ last_updated # NoneT
        /\ old_state.last_updated > last_updated
     \/ /\ old_state.last_changed # NoneT
        /\ last_changed # NoneT
        /\ old_state.last_changed >= last_changed

\* a decision that compares timestamps also when the current value is empty
IsHistoric_IgnoresEmptyValue(old_state, last_changed, last_updated) ==
  /\ old_state # NoState
  /\ \/ /\ old_state.last_updated # NoneT
        /\ last_updated # NoneT
        /\ old_state.last_updated > last_updated
     \/ /\ old_state.last_changed # NoneT
        /\ last_changed # NoneT
        /\ old_state.last_changed > last_changed

\* lines 496-504: the write is older than the current state
IsHistoric(old_state, last_changed, last_updated) ==
  /\ old_state # NoState
  /\ old_state.state # ""
  /\ \/ /\ old_state.last_updated # NoneT
        /\ last_updated # NoneT
        /\ old_state.last_updated > last_updated
     \/ /\ old_state.last_changed # NoneT
        /\ last_changed # NoneT
        /\ old_state.last_changed > last_changed

\* lines 494-508: the event type, and the StateStore after the decision
EventType(old_state, last_changed, last_updated) ==
  IF IsHistoric(old_state, last_changed, last_updated)
  THEN EVENT_HISTORIC_STATE_CHANGED ELSE EVENT_STATE_CHANGED

\* a decision that stores the state of a historic write as well
StoreAfter_HistoricStored(st, entity_id, state, event) ==
  [st EXCEPT ![entity_id] = state]

StoreAfter(st, entity_id, state, event) ==
  IF event = EVENT_HISTORIC_STATE_CHANGED THEN st
  ELSE [st EXCEPT ![entity_id] = state]

\* what the sequence of writes to one entity looked like so far
HistAfter(h, old_state, last_changed, last_updated) ==
  [n |-> h.n + 1,
   incr |-> h.incr /\ last_updated # NoneT
              /\ (h.n = 0 \/ last_updated > h.prevLu),
   prevLu |-> last_updated,
   lcOk |-> h.lcOk /\ (last_changed = NoneT \/ old_state = NoState
                        \/ last_changed >= old_state.last_changed)]

\* a call that raises before touching anything
Raises(op, err) ==
  /\ call' = [NoCall EXCEPT !.op = op, !.result = err]
  /\ UNCHANGED <<states, pc, pending, fired, lastEvent, calls, hist>>

\* variant: a write repeating the current value and attributes returns
\* without an event
SetState_SilentWhenSame(op, eid, new_state, attributes, context, last_changed, last_updated) ==
  IF eid = NoneId
  THEN Raises(op, "AttributeError")
  ELSE
    LET entity_id == Lower(eid)
        old_state == states[entity_id]
        lc == ResolveLastChanged(old_state, last_changed)
        ctx == IF context = PyNone THEN "fresh" ELSE context
        state == State(entity_id, new_state, AttrsOf(attributes), lc,
                       last_updated, ctx, now)
        event == EventType(old_state, lc, last_updated)
        same == old_state # NoState /\ old_state.state = new_state
                /\ old_state.attributes = AttrsOf(attributes)
    IN /\ states' = IF same THEN states
                    ELSE StoreAfter(states, entity_id, state, event)
       /\ pending' = IF same THEN NoEvent
                     ELSE [event_type |-> event, entity_id |-> entity_id,
                           old_state |-> old_state, new_state |-> state,
                           time_fired |-> NoneT]
       /\ pc' = IF same THEN "idle" ELSE "fire"
       /\ calls' = calls + 1
       /\ call' = [op |-> op, entity_id |-> entity_id,
                   new_state |-> new_state, last_changed |-> last_changed,
                   last_updated |-> last_updated, at |-> now,
                   prev |-> states[entity_id],
                   result |-> IF same THEN "returned" ELSE "running"]
       /\ hist' = [hist EXCEPT ![entity_id] =
                     HistAfter(@, old_state, last_changed, last_updated)]
       /\ lastEvent' = NoEvent
       /\ UNCHANGED fired

\* lines 477-508: everything up to the bus call; None has no lower()
SetState(op, eid, new_state, attributes, context, last_changed, last_updated) ==
  IF eid = NoneId
  THEN Raises(op, "AttributeError")
  ELSE
    LET entity_id == Lower(eid)
        old_state == states[entity_id]
        lc == ResolveLastChanged(old_state, last_changed)
        ctx == IF context = PyNone THEN "fresh" ELSE context
        state == State(entity_id, new_state, AttrsOf(attributes), lc,
                       last_updated, ctx, now)
        event == EventType(old_state, lc, last_updated)
    IN /\ states' = StoreAfter(states, entity_id, state, event)
       /\ pending' = [event_type |-> event, entity_id |-> entity_id,
                      old_state |-> old_state, new_state |-> state,
                      time_fired |-> NoneT]
       /\ pc' = "fire"
       /\ calls' = calls + 1
       /\ call' = [op |-> op, entity_id |-> entity_id,
                   new_state |-> new_state, last_changed |-> last_changed,
                   last_updated |-> last_updated, at |-> now,
                   prev |-> states[entity_id], result |-> "running"]
       /\ hist' = [hist EXCEPT ![entity_id] =
                     HistAfter(@, old_state, last_changed, last_updated)]
       /\ lastEvent' = NoEvent
       /\ UNCHANGED fired

\* a caller of hass.states.historic_async_set
StateAsyncSet ==
  /\ pc = "idle"
  /\ writesLeft > 0
  /\ writesLeft' = writesLeft - 1
  /\ \E eid \in RawEntityIds :
       IF eid = NoneId
       THEN SetState("state_async_set", eid, "", NoneAttrs, PyNone, NoneT,
                     NoneT)
       ELSE \E v \in Values, a \in AttrInputs, lc \in OptTimes,
               lu \in OptTimes :
               SetState("state_async_set", eid, v, a, PyNone, lc, lu)
  /\ UNCHANGED <<now, ent, recVars, infVars>>

\* ---------------------------------------------------------- recorder queue
\* an attribute value json.dumps cannot encode
Unserializable == "<object>"
ObjAttrs == << <<"raw", Unserializable>> >>

Serializable(attributes) ==
  \A i \in 1..Len(attributes) : attributes[i][2] # Unserializable

EVENT_TIME_CHANGED == "time_changed"
\* self.exclude_t and self.entity_filter of the model's configuration
ExcludedTypes == {"call_service"}
EntityFilter(entity_id) == entity_id # "sensor.excluded"

\* a queue item: the stop sentinel None, a PurgeTask, or an event, of which
\* the worker reads the type, the entity id and whether Events.from_event
\* (ev_ok) and States.from_event (st_ok) can serialize it
Item(kind, id, event_type, entity_id, ev_ok, st_ok) ==
  [kind |-> kind, id |-> id, event_type |-> event_type,
   entity_id |-> entity_id, ev_ok |-> ev_ok, st_ok |-> st_ok]

NoItem == Item("none", 0, "", PyNone, TRUE, TRUE)
StopItem(id) == Item("stop", id, "", PyNone, TRUE, TRUE)
PurgeItem(id) == Item("purge", id, "", PyNone, TRUE, TRUE)

\* a state event as the recorder sees it: Events.from_event dumps old_state
\* and new_state, States.from_event the attributes of new_state
RecItem(ev, id) ==
  Item("event", id, ev.event_type, ev.entity_id,
       Serializable(ev.old_state.attributes)
         /\ Serializable(ev.new_state.attributes),
       Serializable(ev.new_state.attributes))

\* a listener that hands the event over only while the worker waits for
\* an item
Deliver_WaitsForWorker(ev) ==
  /\ recOn => rpc = "get"
  /\ IF recOn
     THEN /\ rq' = Append(rq, RecItem(ev, enq + 1))
          /\ enq' = enq + 1
          /\ UNCHANGED <<recCfg, recW, recDb, recLife, recBudget>>
     ELSE UNCHANGED recVars

\* Recorder.event_listener: every event of the bus goes on the queue
Deliver(ev) ==
  IF recOn
  THEN /\ rq' = Append(rq, RecItem(ev, enq + 1))
       /\ enq' = enq + 1
       /\ UNCHANGED <<recCfg, recW, recDb, recLife, recBudget>>
  ELSE UNCHANGED recVars

\* lines 510-514: self._bus.async_fire(event, {...}), then return
\* InfluxThread._event_listener, registered when the worker is created
InfDeliver(ev) ==
  /\ iq' = IF ipc = "running" THEN Append(iq, ev) ELSE iq
  /\ UNCHANGED <<infCfg, baseInf, ipc, iwait, points, infSetup, iStopL, sink>>

BusFire ==
  /\ pc = "fire"
  /\ fired' = fired + 1
  /\ lastEvent' = [pending EXCEPT !.time_fired = now]
  /\ pending' = NoEvent
  /\ call' = [call EXCEPT !.result = "returned", !.at = NoneT]
  /\ pc' = "idle"
  /\ Deliver(pending)
  /\ InfDeliver([pending EXCEPT !.time_fired = now])
  /\ UNCHANGED <<now, states, calls, hist, ent, writesLeft>>

\* the clock
Tick ==
  /\ now < MaxTime
  /\ now' = now + 1
  /\ UNCHANGED <<states, pc, pending, call, fired, lastEvent, calls, hist,
                 ent, writesLeft, recVars, infVars>>

\* ---------------------------------------------------------- HistoricEntity
\* the platform sets hass, then entity_id (the class attributes are None)
PlatformSetHass ==
  /\ pc = "idle"
  /\ ~ent.hass
  /\ ent' = [ent EXCEPT !.hass = TRUE]
  /\ UNCHANGED <<now, states, pc, pending, call, fired, lastEvent, calls,
                 hist, writesLeft, recVars, infVars>>

PlatformSetEntityId ==
  /\ pc = "idle"
  /\ ent.hass
  /\ ent.entity_id = NoneId
  /\ ent' = [ent EXCEPT !.entity_id = "sensor.temp"]
  /\ UNCHANGED <<now, states, pc, pending, call, fired, lastEvent, calls,
                 hist, writesLeft, recVars, infVars>>

\* what the entity's properties return when the state is written
EntityProps ==
  {p \in [available : BOOLEAN, state : {PyNone, "20.0"},
          unit_of_measurement : {"W"},
          last_changed : OptTimes, last_updated : OptTimes] :
     ~p.available => p.state = PyNone}

\* lines 257-266: the state string
EntityState(p) ==
  IF ~p.available THEN STATE_UNAVAILABLE
  ELSE IF p.state = PyNone THEN STATE_UNKNOWN ELSE p.state

\* lines 257, 268-273: the attributes (no state_attributes in the base class)
EntityAttrs(p) ==
  IF p.unit_of_measurement # PyNone
  THEN << <<"unit_of_measurement", p.unit_of_measurement>> >>
  ELSE EmptyAttrs

\* lines 253-339: _async_write_ha_state ends in historic_async_set
WriteHaState(p) ==
  SetState("state_async_set", ent.entity_id, EntityState(p), EntityAttrs(p), PyNone,
           p.last_changed, p.last_updated)

\* variant: the entity_id check is missing
CheckedWrite_NoIdCheck(op, p) ==
  IF ~ent.hass THEN Raises(op, "RuntimeError")
  ELSE WriteHaState(p)

\* lines 223-228 and 243-250: the two checks, then the write
CheckedWrite(op, p) ==
  IF ~ent.hass THEN Raises(op, "RuntimeError")
  ELSE IF ent.entity_id = NoneId THEN Raises(op, "NoEntitySpecifiedError")
  ELSE WriteHaState(p)

\* lines 240-250
AsyncWriteHaState ==
  /\ pc = "idle"
  /\ writesLeft > 0
  /\ writesLeft' = writesLeft - 1
  /\ \E p \in EntityProps : CheckedWrite("async_write_ha_state", p)
  /\ UNCHANGED <<now, ent, recVars, infVars>>

\* lines 216-238: the write, or (force_refresh set, after both checks) an
\* update that raises: the error is logged and nothing is written
AsyncUpdateHaState ==
  /\ pc = "idle"
  /\ writesLeft > 0
  /\ writesLeft' = writesLeft - 1
  /\ \/ \E p \in EntityProps : CheckedWrite("async_update_ha_state", p)
     \/ /\ ent.hass
        /\ ent.entity_id # NoneId
        /\ call' = [NoCall EXCEPT !.op = "async_update_ha_state",
                                  !.result = "update failed"]
        /\ UNCHANGED <<states, pc, pending, fired, lastEvent, calls, hist>>
  /\ UNCHANGED <<now, ent, recVars, infVars>>

\* ---------------------------------------------------------------- recorder
\* the worker's local `dbevent` before its first assignment
Unbound == [bound |-> FALSE, event_id |-> 0, src |-> 0, expired |-> FALSE]

\* the worker's record of the loop it is in or has just left (the
\* connection loop, or the retry loop of one item): passes, sleeps of lines
\* 52 and 164, passes that ended in OperationalError, warnings of lines 172
\* and 182, "Giving up" lines of line 199, and how the loop ended
NoStat ==
  [id |-> 0, attempts |-> 0, sleeps |-> 0, opFails |-> 0, warnings |-> 0,
   giveUps |-> 0, end |-> "none"]

\* a retry loop that stops one pass early
MaxTries_Nine == 10 - 1

\* `tries <= 10` of both retry loops.  The local `tries` is dead between
\* the end of one loop and line 160, which sets it to 1: rtries holds 1 there
MaxTries == 10

\* events other components put on the bus
EnvEvents ==
  {Item("event", 0, EVENT_TIME_CHANGED, PyNone, TRUE, TRUE),
   Item("event", 0, "call_service", PyNone, TRUE, TRUE),
   Item("event", 0, "service_registered", PyNone, TRUE, TRUE),
   Item("event", 0, EVENT_STATE_CHANGED, "sensor.excluded", TRUE, TRUE),
   Item("event", 0, EVENT_STATE_CHANGED, "sensor.temp", TRUE, TRUE),
   Item("event", 0, EVENT_STATE_CHANGED, "sensor.temp", FALSE, TRUE),
   Item("event", 0, EVENT_STATE_CHANGED, "sensor.temp", FALSE, FALSE),
   Item("event", 0, EVENT_HISTORIC_STATE_CHANGED, "sensor.temp", TRUE, TRUE)}

\* a listener that puts the event at the head of the queue
EnvFire_PutsInFront ==
  /\ recOn
  /\ pc = "idle"
  /\ evLeft > 0
  /\ evLeft' = evLeft - 1
  /\ \E ev \in EnvEvents :
       rq' = <<[ev EXCEPT !.id = enq + 1]>> \o rq
  /\ enq' = enq + 1
  /\ UNCHANGED <<decVars, infVars, recCfg, recW, recDb, recLife, purgeLeft>>

\* Recorder.event_listener for an event of another component
EnvFire ==
  /\ recOn
  /\ pc = "idle"
  /\ evLeft > 0
  /\ evLeft' = evLeft - 1
  /\ \E ev \in EnvEvents :
       rq' = Append(rq, [ev EXCEPT !.id = enq + 1])
  /\ enq' = enq + 1
  /\ UNCHANGED <<decVars, infVars, recCfg, recW, recDb, recLife, purgeLeft>>

\* lines 50-75: one pass of the connection loop, the sleep of line 52
\* included when it is not the first
RecConnect ==
  /\ recOn
  /\ rpc = "connect"
  /\ \E connected \in BOOLEAN :
       IF connected
       THEN /\ conn' = "open"
            /\ rpc' = "wait_started"
            /\ jobs' = jobs \cup {"register"}
            /\ rtries' = 1
            /\ rstat' = [NoStat EXCEPT !.end = "connected"]
       ELSE /\ rtries' = rtries + 1
            /\ conn' = conn
            /\ rstat' = [rstat EXCEPT
                 !.attempts = @ + 1,
                 !.sleeps = @ + (IF rtries # 1 THEN 1 ELSE 0),
                 !.end = IF rtries + 1 <= MaxTries THEN "connecting"
                         ELSE "failed"]
            /\ IF rtries + 1 <= MaxTries
               THEN rpc' = "connect" /\ jobs' = jobs
               ELSE rpc' = "failed"
                    /\ jobs' = jobs \cup {"connection_failed"}
  /\ UNCHANGED <<decVars, infVars, recCfg, recQ, rcur, dequeued, acked, dbevent,
                 eventsTbl, statesTbl, nextId, purges, dbReady, notified,
                 hassStarted, futError, hassState, stopL, startL, purgeTimer,
                 recBudget>>

\* a failure that is reported to async_db_ready only
ConnectionFailed_NoNotification ==
  /\ pc = "idle"
  /\ "connection_failed" \in jobs
  /\ jobs' = jobs \ {"connection_failed"}
  /\ dbReady' = "false"
  /\ notified' = notified
  /\ UNCHANGED <<decVars, infVars, recCfg, recQ, recW, recDb, hassStarted, futError,
                 hassState, stopL, startL, purgeTimer, recBudget>>

\* lines 65-72
ConnectionFailed ==
  /\ pc = "idle"
  /\ "connection_failed" \in jobs
  /\ jobs' = jobs \ {"connection_failed"}
  /\ dbReady' = "false"
  /\ notified' = notified + 1
  /\ UNCHANGED <<decVars, infVars, recCfg, recQ, recW, recDb, hassStarted, futError,
                 hassState, stopL, startL, purgeTimer, recBudget>>

\* Future.set_result: a resolved future raises InvalidStateError
SetResult(v) ==
  IF hassStarted = "pending"
  THEN hassStarted' = v /\ futError' = futError
  ELSE hassStarted' = hassStarted /\ futError' = TRUE

\* lines 80-103
Register ==
  /\ pc = "idle"
  /\ "register" \in jobs
  /\ jobs' = jobs \ {"register"}
  /\ dbReady' = "true"
  /\ stopL' = "armed"
  /\ IF hassState = "running"
     THEN SetResult("none") /\ startL' = startL
     ELSE startL' = "armed" /\ UNCHANGED <<hassStarted, futError>>
  /\ UNCHANGED <<decVars, infVars, recCfg, recQ, recW, recDb, notified, hassState,
                 purgeTimer, recBudget>>

\* Home Assistant finishes starting: EVENT_HOMEASSISTANT_START
HassStart ==
  /\ pc = "idle"
  /\ hassState = "starting"
  /\ hassState' = "running"
  /\ startL' = IF startL = "armed" THEN "due" ELSE startL
  /\ UNCHANGED <<decVars, infVars, recCfg, recQ, recW, recDb, dbReady, notified,
                 hassStarted, futError, stopL, jobs, purgeTimer, recBudget>>

\* Home Assistant stops: EVENT_HOMEASSISTANT_STOP
HassStop ==
  /\ pc = "idle"
  /\ hassState \in {"starting", "running"}
  /\ hassState' = "stopping"
  /\ stopL' = IF stopL = "armed" THEN "due" ELSE stopL
  /\ iStopL' = IF iStopL = "armed" THEN "due" ELSE iStopL
  /\ UNCHANGED <<decVars, infCfg, baseInf, ipc, iwait, iq, points, infSetup,
                 sink, recCfg, recQ, recW, recDb, dbReady, notified,
                 hassStarted, futError, startL, jobs, purgeTimer, recBudget>>

\* lines 97-100
NotifyHassStarted ==
  /\ pc = "idle"
  /\ startL = "due"
  /\ startL' = "done"
  /\ SetResult("none")
  /\ UNCHANGED <<decVars, infVars, recCfg, recQ, recW, recDb, dbReady, notified,
                 hassState, stopL, jobs, purgeTimer, recBudget>>

\* lines 85-90
Shutdown ==
  /\ stopL = "due"
  /\ stopL' = "done"
  /\ hassStarted' = IF hassStarted = "pending" THEN "shutdown"
                    ELSE hassStarted
  /\ rq' = Append(rq, StopItem(enq + 1))
  /\ enq' = enq + 1
  /\ UNCHANGED <<decVars, infVars, recCfg, recW, recDb, dbReady, notified, futError,
                 hassState, startL, jobs, purgeTimer, recBudget>>

\* lines 106-133: the worker wakes up once hass_started is resolved
RecStarted ==
  /\ rpc = "wait_started"
  /\ hassStarted # "pending"
  /\ IF hassStarted = "shutdown"
     THEN rpc' = "stopped" /\ purgeTimer' = purgeTimer
     ELSE /\ rpc' = "get"
          /\ purgeTimer' = IF purgeOn THEN purgeTimer + 1 ELSE purgeTimer
  /\ UNCHANGED <<decVars, infVars, recCfg, recQ, rtries, rcur, dequeued, acked,
                 dbevent, rstat, recDb, dbReady, notified, hassStarted, futError,
                 hassState, stopL, startL, jobs, recBudget>>

\* a callback that enqueues the purge and sets no further timer
AsyncPurge_NoReschedule ==
  /\ pc = "idle"
  /\ purgeTimer > 0
  /\ purgeLeft > 0
  /\ purgeLeft' = purgeLeft - 1
  /\ rq' = Append(rq, PurgeItem(enq + 1))
  /\ enq' = enq + 1
  /\ purgeTimer' = purgeTimer - 1
  /\ UNCHANGED <<decVars, infVars, recCfg, recW, recDb, dbReady, notified,
                 hassStarted, futError, hassState, stopL, startL, jobs,
                 evLeft>>

\* lines 114-120: the timer expires
AsyncPurge ==
  /\ pc = "idle"
  /\ purgeTimer > 0
  /\ purgeLeft > 0
  /\ purgeLeft' = purgeLeft - 1
  /\ rq' = Append(rq, PurgeItem(enq + 1))
  /\ enq' = enq + 1
  /\ purgeTimer' = (purgeTimer - 1) + 1
  /\ UNCHANGED <<decVars, infVars, recCfg, recW, recDb, dbReady, notified,
                 hassStarted, futError, hassState, stopL, startL, jobs,
                 evLeft>>

\* lines 147-158: the events the worker skips
Skipped(it) ==
  \/ it.event_type = EVENT_TIME_CHANGED
  \/ it.event_type \in ExcludedTypes
  \/ it.entity_id # PyNone /\ ~EntityFilter(it.entity_id)

\* a worker that closes the connection at the sentinel and goes on
RecGet_StopKeepsRunning ==
  /\ rpc = "get"
  /\ rq # << >>
  /\ rq' = Tail(rq)
  /\ dequeued' = dequeued + 1
  /\ LET it == Head(rq)
     IN CASE it.kind = "stop" ->
               /\ conn' = "closed"
               /\ acked' = acked + 1
               /\ UNCHANGED <<rpc, rtries, rcur, purges>>
          [] it.kind = "purge" ->
               /\ purges' = purges + 1
               /\ acked' = acked + 1
               /\ UNCHANGED <<rpc, rtries, rcur, conn>>
          [] it.kind = "event" /\ Skipped(it) ->
               /\ acked' = acked + 1
               /\ UNCHANGED <<rpc, rtries, rcur, conn, purges>>
          [] OTHER ->
               /\ rcur' = it
               /\ rtries' = 1
               /\ rpc' = "commit"
               /\ UNCHANGED <<acked, conn, purges>>
  /\ rstat' = [NoStat EXCEPT !.id = Head(rq).id,
                             !.end = IF Head(rq).kind = "event"
                                        /\ ~Skipped(Head(rq))
                                     THEN "running" ELSE Head(rq).kind]
  /\ UNCHANGED <<decVars, infVars, recCfg, enq, dbevent, eventsTbl, statesTbl, nextId,
                 recLife, recBudget>>

\* lines 136-161: queue.get() and what follows up to the retry loop
RecGet ==
  /\ rpc = "get"
  /\ rq # << >>
  /\ rq' = Tail(rq)
  /\ dequeued' = dequeued + 1
  /\ LET it == Head(rq)
     IN CASE it.kind = "stop" ->
               /\ conn' = "closed"
               /\ acked' = acked + 1
               /\ rpc' = "stopped"
               /\ UNCHANGED <<rtries, rcur, purges>>
          [] it.kind = "purge" ->
               /\ purges' = purges + 1
               /\ acked' = acked + 1
               /\ UNCHANGED <<rpc, rtries, rcur, conn>>
          [] it.kind = "event" /\ Skipped(it) ->
               /\ acked' = acked + 1
               /\ UNCHANGED <<rpc, rtries, rcur, conn, purges>>
          [] OTHER ->
               /\ rcur' = it
               /\ rtries' = 1
               /\ rpc' = "commit"
               /\ UNCHANGED <<acked, conn, purges>>
  /\ rstat' = [NoStat EXCEPT !.id = Head(rq).id,
                             !.end = IF Head(rq).kind = "event"
                                        /\ ~Skipped(Head(rq))
                                     THEN "running" ELSE Head(rq).kind]
  /\ UNCHANGED <<decVars, infVars, recCfg, enq, dbevent, eventsTbl, statesTbl, nextId,
                 recLife, recBudget>>

IsStateEvent(it) ==
  it.event_type \in {EVENT_STATE_CHANGED, EVENT_HISTORIC_STATE_CHANGED}

\* line 179 can read dbevent.event_id: the name is bound and the object was
\* not expired by a commit (an expired object that left its session raises
\* DetachedInstanceError, an SQLAlchemyError, when read)
Readable(dbev) == dbev.bound /\ ~dbev.expired

\* what can go wrong in one pass of lines 165-196: the database fails at
\* the flush of line 170 or at the commit that ends session_scope, when
\* there is something to flush or to commit
Faults(it, dbev) ==
  {"none"}
    \cup (IF it.ev_ok THEN {"flush_operational", "flush_sqlalchemy"} ELSE {})
    \cup (IF it.ev_ok \/ (IsStateEvent(it) /\ it.st_ok /\ Readable(dbev))
          THEN {"commit_operational", "commit_sqlalchemy"}
          ELSE {})

\* lines 166-196: one pass of the try block.  Result: how it ended
\* ("ok", "operational", "sqlalchemy", or "unbound" for the
\* UnboundLocalError of line 179), the rows it committed, the warnings it
\* logged, `dbevent` after it.  `id` is the key the flush of line 170
\* assigns; a rolled-back insert leaves the key free
Attempt(it, fault, dbev, id) ==
  LET atFlush == it.ev_ok /\ fault \in {"flush_operational",
                                         "flush_sqlalchemy"}
      flushed == it.ev_ok /\ ~atFlush
      \* lines 168-170
      dbev1 == IF ~it.ev_ok THEN dbev
               ELSE [bound |-> TRUE, src |-> it.id,
                     event_id |-> IF flushed THEN id ELSE 0,
                     expired |-> FALSE]
      \* lines 175-180
      linking == ~atFlush /\ IsStateEvent(it) /\ it.st_ok
      unbound == linking /\ ~dbev1.bound
      detached == linking /\ dbev1.bound /\ dbev1.expired
      evRows == IF flushed
                THEN {[event_id |-> id, src |-> it.id,
                       event_type |-> it.event_type]}
                ELSE {}
      stRows == IF linking /\ Readable(dbev1)
                THEN {[event_id |-> dbev1.event_id, src |-> it.id]}
                ELSE {}
      end == IF fault = "flush_operational" THEN "operational"
             ELSE IF fault = "flush_sqlalchemy" THEN "sqlalchemy"
             ELSE IF unbound THEN "unbound"
             ELSE IF detached THEN "sqlalchemy"
             ELSE IF fault = "commit_operational" THEN "operational"
             ELSE IF fault = "commit_sqlalchemy" THEN "sqlalchemy"
             ELSE "ok"
  IN [end |-> end,
      events |-> IF end = "ok" THEN evRows ELSE {},
      states |-> IF end = "ok" THEN stRows ELSE {},
      warnings |-> (IF it.ev_ok THEN 0 ELSE 1)
                   + (IF ~atFlush /\ IsStateEvent(it) /\ ~it.st_ok
                      THEN 1 ELSE 0),
      dbevent |-> IF end = "ok" /\ flushed
                  THEN [dbev1 EXCEPT !.expired = TRUE]
                  ELSE dbev1,
      nextId |-> IF end = "ok" /\ flushed THEN id + 1 ELSE id]

\* a loop that does not take a successful commit for done
Updated_OnlyOnError(end) == end = "sqlalchemy"

\* lines 186 and 195: `updated = True`
Updated(end) == end \in {"ok", "sqlalchemy"}

\* lines 162-202: one pass of the retry loop (the sleep of line 164
\* included when it is not the first) and, when it was the last, the
\* give-up log and task_done
RecCommit ==
  /\ rpc = "commit"
  /\ \E fault \in Faults(rcur, dbevent) :
       LET a == Attempt(rcur, fault, dbevent, nextId)
           tries == IF a.end = "operational" THEN rtries + 1 ELSE rtries
           end == IF a.end = "unbound" THEN "unbound"
                  ELSE IF Updated(a.end) THEN a.end
                  ELSE IF tries <= MaxTries THEN "running"
                  ELSE "gave up"
       IN /\ dbevent' = a.dbevent
          /\ nextId' = a.nextId
          /\ eventsTbl' = eventsTbl \cup a.events
          /\ statesTbl' = statesTbl \cup a.states
          /\ rstat' = [rstat EXCEPT
               !.attempts = @ + 1,
               !.sleeps = @ + (IF rtries # 1 THEN 1 ELSE 0),
               !.opFails = @ + (IF a.end = "operational" THEN 1 ELSE 0),
               !.warnings = @ + a.warnings,
               !.giveUps = @ + (IF end = "gave up" THEN 1 ELSE 0),
               !.end = end]
          /\ CASE end = "unbound" ->
                    /\ rpc' = "crashed"
                    /\ UNCHANGED <<rtries, rcur, acked>>
               [] end = "running" ->
                    /\ rtries' = tries
                    /\ rpc' = "commit"
                    /\ UNCHANGED <<rcur, acked>>
               [] OTHER ->
                    /\ rtries' = 1
                    /\ rpc' = "get"
                    /\ rcur' = NoItem
                    /\ acked' = acked + 1
  /\ UNCHANGED <<decVars, infVars, recCfg, recQ, dequeued, conn, purges, recLife,
                 recBudget>>

\* ------------------------------------------------------- first purge time
\* times of this computation are counted in units of 30 minutes
UnitsPerDay == 48

\* timedelta(days = d)
Days(d) == d * UnitsPerDay

Min(a, b) == IF a <= b THEN a ELSE b

Max(a, b) == IF a >= b THEN a ELSE b

\* the computation has not been asked for
NoSched ==
  [keep_days |-> 0, purge_interval |-> 0, now |-> NoneT, lag |-> 0,
   oldest |-> NoneT, run_time |-> NoneT, done |-> FALSE]

\* a clamp with min and max the wrong way round
PurgeRunTime_Swapped(now1, now2, keep_days, purge_interval, oldest) ==
  LET earliest == now1 + 1
      latest == now2 + Days(purge_interval)
      run_time == IF oldest = NoneT THEN latest
                  ELSE oldest + Days(keep_days + purge_interval)
  IN Max(latest, Min(run_time, earliest))

\* lines 122-131.  now1 and now2 are the two readings of utcnow(), oldest
\* the time_fired of the row session.query(Events).first() returns
PurgeRunTime(now1, now2, keep_days, purge_interval, oldest) ==
  LET earliest == now1 + 1
      latest == now2 + Days(purge_interval)
      run_time == IF oldest = NoneT THEN latest
                  ELSE oldest + Days(keep_days + purge_interval)
  IN Min(latest, Max(run_time, earliest))

\* lines 113-133 for one configuration, clock and log
FirstPurgeTime ==
  /\ sched # NoSched
  /\ ~sched.done
  /\ sched' = [sched EXCEPT
       !.run_time = PurgeRunTime(sched.now, sched.now + sched.lag,
                                 sched.keep_days, sched.purge_interval,
                                 sched.oldest),
       !.done = TRUE]
  /\ UNCHANGED <<decVars, infVars, recOn, purgeOn, recQ, recW, recDb,
                 recLife, recBudget>>

\* ------------------------------------------------- SensorHistoricTemplate
\* the properties a template drives, in the order async_update renders them
TimeProps == {"_last_changed", "_last_updated"}
LoopProps == {"_icon", "_entity_picture", "_name"}
SensorProps == {"_state"} \cup TimeProps \cup LoopProps

\* what one async_render() call does: it returns a value ("ok"), returns
\* None or '' ("empty"), raises the TemplateError that is common while
\* Home Assistant starts ("transient"), or raises another TemplateError
Outcomes(p) ==
  IF p \in TimeProps THEN {"ok", "empty", "transient", "error"}
  ELSE {"ok", "transient", "error"}

\* the value rendered by the n-th update
Rendered(n) == <<"r1", "r2", "r3", "r4">>[n]

\* lines 127-148: the sensor as constructed
FriendlyName == "friendly"
NewSensor(templates) ==
  [on |-> TRUE, templates |-> templates, n |-> 0,
   props |-> [p \in SensorProps |-> IF p = "_name" THEN FriendlyName
                                    ELSE PyNone],
   last |-> [p \in SensorProps |-> "none"],
   warnings |-> [p \in SensorProps |-> 0],
   errors |-> [p \in SensorProps |-> 0]]

NoSensor == [NewSensor({}) EXCEPT !.on = FALSE]

\* getattr(super(), property_name): HistoricEntity and object define none
\* of the underscore attributes, so the lookup raises AttributeError
BaseHas(p) == FALSE
BaseDefault(p) == PyNone

\* lines 217-228: the state template
StateAfterRender(cur, outcome, v) ==
  CASE outcome = "ok" -> v
    [] outcome = "transient" -> cur
    [] OTHER -> PyNone

\* lines 270-285
handle_template_render_error(cur, p, outcome) ==
  IF outcome = "transient" THEN cur
  ELSE IF BaseHas(p) THEN BaseDefault(p)
  ELSE cur

\* lines 230-268: the other templates
PropAfterRender(cur, p, outcome, v) ==
  CASE outcome = "ok" -> v
    [] outcome = "empty" -> PyNone
    [] OTHER -> handle_template_render_error(cur, p, outcome)

\* the log records of one render: warning for the transient error; error
\* for another one, which for the state is line 227 and for the other
\* properties the AttributeError branch of line 283
Warned(outcome) == IF outcome = "transient" THEN 1 ELSE 0
Errored(p, outcome) ==
  IF outcome = "error" /\ (p = "_state" \/ ~BaseHas(p)) THEN 1 ELSE 0

\* lines 215-268: async_update
async_update ==
  /\ sen.on
  /\ sen.n < MaxUpdates
  /\ \E o \in [SensorProps -> {"ok", "empty", "transient", "error", "none"}] :
       /\ \A p \in SensorProps :
            IF p \in sen.templates THEN o[p] \in Outcomes(p)
            ELSE o[p] = "none"
       /\ sen' = [sen EXCEPT
            !.n = @ + 1,
            !.last = o,
            !.props = [p \in SensorProps |->
                         IF p \notin sen.templates THEN sen.props[p]
                         ELSE IF p = "_state"
                         THEN StateAfterRender(sen.props[p], o[p],
                                               Rendered(sen.n + 1))
                         ELSE PropAfterRender(sen.props[p], p, o[p],
                                              Rendered(sen.n + 1))],
            !.warnings = [p \in SensorProps |-> Warned(o[p])],
            !.errors = [p \in SensorProps |-> Errored(p, o[p])]]
  /\ UNCHANGED <<decVars, recVars, infOn, jx, upd, baseInf, ipc, iwait, iq,
                 points, infSetup, iStopL, sink>>

\* ---------------------------------------------------- async_device_update
\* historic_entity.py 367-398. Calls are numbered; each is one coroutine
\* running async_device_update of one entity.
UpdateCalls == 1 .. MaxCalls
UpdateEntities == {"sensor.temp", "sensor.door"}

\* line 77: `_update_staged = False`, and no call under way
NoUpdates ==
  [par |-> FALSE, sem |-> 0,
   staged |-> [e \in UpdateEntities |-> FALSE],
   at |-> [c \in UpdateCalls |-> "idle"],
   of |-> [c \in UpdateCalls |-> "sensor.temp"]]

\* the platform's entities, with parallel_updates None (line 78) or one
\* semaphore of MaxParallel slots shared by the platform's entities
NewUpdates(par) ==
  [NoUpdates EXCEPT !.par = par, !.sem = IF par THEN MaxParallel ELSE 0]

\* lines 372-378: the entry of async_device_update up to its first await
DeviceUpdate(c, e) ==
  /\ upd.at[c] = "idle"
  /\ upd' = IF upd.staged[e]
            THEN [upd EXCEPT !.of[c] = e, !.at[c] = "returned"]
            ELSE [upd EXCEPT
                    !.of[c] = e,
                    !.staged[e] = TRUE,
                    !.at[c] = IF upd.par THEN "acquire" ELSE "updating"]
  /\ UNCHANGED <<decVars, recVars, infOn, jx, sen, baseInf, ipc, iwait, iq,
                 points, infSetup, iStopL, sink>>

\* line 378: `await self.parallel_updates.acquire()` returns
UpdateAcquire(c) ==
  /\ upd.at[c] = "acquire"
  /\ upd.sem > 0
  /\ upd' = [upd EXCEPT !.sem = @ - 1, !.at[c] = "updating"]
  /\ UNCHANGED <<decVars, recVars, infOn, jx, sen, baseInf, ipc, iwait, iq,
                 points, infSetup, iStopL, sink>>

\* an update whose cleanup runs only when the update returns
UpdateFinish_NoFinally(c, outcome) ==
  /\ upd.at[c] = "updating"
  /\ upd' = IF outcome = "raised"
            THEN [upd EXCEPT !.at[c] = outcome]
            ELSE [upd EXCEPT
                    !.staged[upd.of[c]] = FALSE,
                    !.sem = IF upd.par THEN @ + 1 ELSE @,
                    !.at[c] = outcome]
  /\ UNCHANGED <<decVars, recVars, infOn, jx, sen, baseInf, ipc, iwait, iq,
                 points, infSetup, iStopL, sink>>

\* lines 387-398: the update returns or raises, and the finally block runs
UpdateFinish(c, outcome) ==
  /\ upd.at[c] = "updating"
  /\ upd' = [upd EXCEPT
       !.staged[upd.of[c]] = FALSE,
       !.sem = IF upd.par THEN @ + 1 ELSE @,
       !.at[c] = outcome]
  /\ UNCHANGED <<decVars, recVars, infOn, jx, sen, baseInf, ipc, iwait, iq,
                 points, infSetup, iStopL, sink>>

\* ---------------------------------------------------------------- exporter
\* `wait_attempts < 12`
MaxWaitAttempts == 12

\* the None that ends the exporter worker
StopEvent == [NoEvent EXCEPT !.event_type = "<stop>"]

\* Python dicts keyed by strings
EmptyMap == [k \in {} |-> ""]
MapPut(f, k, v) == [y \in DOMAIN f \cup {k} |-> IF y = k THEN v ELSE f[y]]
MapDel(f, k) == [y \in DOMAIN f \ {k} |-> f[y]]

\* field values: a float or a str
Num(v) == [t |-> "num", v |-> v]
Str(v) == [t |-> "str", v |-> v]

NoPoint ==
  [measurement |-> PyNone, tags |-> EmptyMap, time |-> NoneT,
   fields |-> EmptyMap]

\* attributes.get(key)
AttrGet(attributes, key) ==
  IF \E i \in 1..Len(attributes) : attributes[i][1] = key
  THEN attributes[CHOOSE i \in 1..Len(attributes) : attributes[i][1] = key][2]
  ELSE PyNone

\* State.domain and State.object_id: split_entity_id
DomainOf(entity_id) == IF entity_id = "light.lamp" THEN "light" ELSE "sensor"
ObjectIdOf(entity_id) == IF entity_id = "light.lamp" THEN "lamp" ELSE "temp"

\* float(x) on the strings of the model: the float it returns, as its
\* repr; a string outside the table raises ValueError
FloatOf ==
  [x \in {"19.0", "20.0", "5", "inf", "nan"} |->
     CASE x = "5" -> "5.0"
       [] OTHER -> x]
Parses(x) == x \in DOMAIN FloatOf

\* math.isfinite
IsFinite(f) == f \notin {"inf", "nan"}

\* state_helper.state_as_number: 1 and 0 for the binary states, float()
\* of anything else
BinaryStates ==
  [x \in {"on", "off"} |-> IF x = "on" THEN "1.0" ELSE "0.0"]
StateAsNumberOk(x) == x \in DOMAIN BinaryStates \/ Parses(x)
state_as_number(x) ==
  IF x \in DOMAIN BinaryStates THEN BinaryStates[x] ELSE FloatOf[x]

\* RE_DIGIT_TAIL.match(s) and float(RE_DECIMAL.sub('', s))
DigitTail(x) == x \in {"12px"}
DecimalOf(x) == "12.0"

\* the exporter configuration of lines 100-114
EmptyConf ==
  [whitelist_e |-> {}, whitelist_d |-> {}, blacklist_e |-> {},
   blacklist_d |-> {}, tags_attributes |-> {}, tags |-> EmptyMap,
   override_measurement |-> PyNone, default_measurement |-> PyNone,
   component_override |-> PyNone]

\* a filter that lets an included entity through before it looks at the
\* exclude sets
Filtered_InclusionFirst(conf, event) ==
  LET state == event.new_state
  IN \/ state = NoState
     \/ state.state \in {STATE_UNKNOWN, "", STATE_UNAVAILABLE}
     \/ /\ state.entity_id \notin conf.whitelist_e
        /\ DomainOf(state.entity_id) \notin conf.whitelist_d
        /\ \/ state.entity_id \in conf.blacklist_e
           \/ DomainOf(state.entity_id) \in conf.blacklist_d
           \/ conf.whitelist_e # {} \/ conf.whitelist_d # {}

\* lines 134-144: the event is dropped
Filtered(conf, event) ==
  LET state == event.new_state
  IN \/ state = NoState
     \/ state.state \in {STATE_UNKNOWN, "", STATE_UNAVAILABLE}
     \/ state.entity_id \in conf.blacklist_e
     \/ DomainOf(state.entity_id) \in conf.blacklist_d
     \/ /\ conf.whitelist_e # {} \/ conf.whitelist_d # {}
        /\ state.entity_id \notin conf.whitelist_e
        /\ DomainOf(state.entity_id) \notin conf.whitelist_d

\* lines 145-154: _include_state, _include_value, _state_as_value
StateFields(state) ==
  IF Parses(state.state)
  THEN MapPut(EmptyMap, "value", Num(FloatOf[state.state]))
  ELSE IF StateAsNumberOk(state.state)
  THEN MapPut(MapPut(EmptyMap, "state", Str(state.state)),
              "value", Num(state_as_number(state.state)))
  ELSE MapPut(EmptyMap, "state", Str(state.state))

\* lines 156-171: the measurement name, and whether the unit stays a field
Measurement(conf, state) ==
  LET unit == AttrGet(state.attributes, "unit_of_measurement")
  IN IF conf.component_override \notin {PyNone, ""}
     THEN [name |-> conf.component_override, include_uom |-> TRUE]
     ELSE IF conf.override_measurement \notin {PyNone, ""}
     THEN [name |-> conf.override_measurement, include_uom |-> TRUE]
     ELSE IF unit \notin {PyNone, ""}
     THEN [name |-> unit, include_uom |-> FALSE]
     ELSE IF conf.default_measurement \notin {PyNone, ""}
     THEN [name |-> conf.default_measurement, include_uom |-> TRUE]
     ELSE [name |-> state.entity_id, include_uom |-> TRUE]

\* lines 173-176
EventTime_AlwaysFireTime(event) == event.time_fired

EventTime(event) ==
  IF event.event_type = EVENT_HISTORIC_STATE_CHANGED
  THEN event.new_state.last_updated
  ELSE event.time_fired

\* lines 198-219: the fields after one attribute that is no tag
FieldsAfter(fields, key0, value) ==
  LET key == IF key0 \in DOMAIN fields THEN key0 \o "_" ELSE key0
      new_key == key \o "_str"
      set == IF Parses(value)
             THEN MapPut(fields, key, Num(FloatOf[value]))
             ELSE IF DigitTail(value)
             THEN MapPut(MapPut(fields, new_key, Str(value)),
                         key, Num(DecimalOf(value)))
             ELSE MapPut(fields, new_key, Str(value))
  IN IF /\ key \in DOMAIN set
        /\ set[key].t = "num"
        /\ ~IsFinite(set[key].v)
     THEN MapDel(set, key)
     ELSE set

\* lines 192-219: one pass of the loop over state.attributes.items()
AttrStep(json, key, value, conf, include_uom) ==
  IF key \in conf.tags_attributes
  THEN [json EXCEPT !.tags = MapPut(@, key, value)]
  ELSE IF key # "unit_of_measurement" \/ include_uom
  THEN [json EXCEPT !.fields = FieldsAfter(@, key, value)]
  ELSE json

RECURSIVE AttrLoop(_, _, _, _, _)
AttrLoop(json, attributes, i, conf, include_uom) ==
  IF i > Len(attributes)
  THEN json
  ELSE LET next == AttrStep(json, attributes[i][1], attributes[i][2], conf,
                            include_uom)
       IN AttrLoop(next, attributes, i + 1, conf, include_uom)

\* dict.update
MapUpdate(f, g) ==
  [y \in DOMAIN f \cup DOMAIN g |-> IF y \in DOMAIN g THEN g[y] ELSE f[y]]

\* lines 132-223
event_to_json(conf, event) ==
  LET state == event.new_state
      m == Measurement(conf, state)
      json == [measurement |-> m.name,
               tags |-> MapPut(MapPut(EmptyMap, "domain",
                                      DomainOf(state.entity_id)),
                               "entity_id", ObjectIdOf(state.entity_id)),
               time |-> EventTime(event),
               fields |-> StateFields(state)]
      looped == AttrLoop(json, state.attributes, 1, conf, m.include_uom)
  IN IF Filtered(conf, event)
     THEN NoPoint
     ELSE [looped EXCEPT !.tags = MapUpdate(@, conf.tags)]

\* one application of event_to_json
NoJson == [conf |-> EmptyConf, event |-> NoEvent, point |-> NoPoint, done |-> TRUE]

JsonApply ==
  /\ ~jx.done
  /\ jx' = [jx EXCEPT !.point = event_to_json(jx.conf, jx.event),
                      !.done = TRUE]
  /\ UNCHANGED <<decVars, recVars, infOn, sen, upd, baseInf, ipc, iwait, iq,
                 points, infSetup, iStopL, sink>>

\* the base influxdb component finishes its setup
BaseInfStart ==
  /\ infOn
  /\ baseInf = "absent"
  /\ baseInf' = "running"
  /\ UNCHANGED <<decVars, recVars, infCfg, ipc, iwait, iq, points, infSetup,
                 iStopL, sink>>

\* lines 46-62: one pass of the waiting loop
InfWait ==
  /\ ipc = "wait"
  /\ iwait' = iwait + 1
  /\ IF baseInf = "running"
     THEN baseInf' = "stopped" /\ ipc' = "probe"
     ELSE /\ baseInf' = baseInf
          /\ ipc' = IF iwait + 1 < MaxWaitAttempts THEN "wait" ELSE "probe"
  /\ UNCHANGED <<decVars, recVars, infCfg, iq, points, infSetup, iStopL,
                 sink>>

\* the sink becomes reachable
SinkUp ==
  /\ infOn
  /\ sink = "down"
  /\ sink' = "up"
  /\ UNCHANGED <<decVars, recVars, infCfg, baseInf, ipc, iwait, iq, points,
                 infSetup, iStopL>>

\* a _setup that starts a worker although the probe has failed
InfSetup_StartsAnyway ==
  /\ ipc = "probe"
  /\ ipc' = "running"
  /\ workers' = workers + 1
  /\ iStopL' = "armed"
  /\ UNCHANGED <<ilogs, itimers>>
  /\ UNCHANGED <<decVars, recVars, infCfg, baseInf, iwait, iq, points, sink>>

\* lines 116-130 and 225-237: _setup
InfSetup ==
  /\ ipc = "probe"
  /\ IF sink = "up"
     THEN /\ ipc' = "running"
          /\ workers' = workers + 1
          /\ iStopL' = "armed"
          /\ UNCHANGED <<ilogs, itimers>>
     ELSE /\ ilogs < MaxProbeFails
          /\ ipc' = "retry"
          /\ ilogs' = ilogs + 1
          /\ itimers' = itimers + 1
          /\ UNCHANGED <<workers, iStopL>>
  /\ UNCHANGED <<decVars, recVars, infCfg, baseInf, iwait, iq, points, sink>>

\* lines 127-129: RETRY_INTERVAL has passed
InfRetry ==
  /\ ipc = "retry"
  /\ itimers > 0
  /\ itimers' = itimers - 1
  /\ ipc' = "probe"
  /\ UNCHANGED <<decVars, recVars, infCfg, baseInf, iwait, iq, points,
                 workers, ilogs, iStopL, sink>>

\* a worker that puts the old_state of the event it exports back into
\* the StateStore
InfMap_RestoresOldState ==
  /\ ipc = "running"
  /\ iq # << >>
  /\ iq' = Tail(iq)
  /\ IF Head(iq) = StopEvent
     THEN ipc' = "stopped" /\ points' = points /\ states' = states
     ELSE /\ points' =
               points \cup ({event_to_json(EmptyConf, Head(iq))} \ {NoPoint})
          /\ ipc' = ipc
          /\ states' = [states EXCEPT ![Head(iq).entity_id] =
                                        Head(iq).old_state]
  /\ UNCHANGED <<now, pc, pending, call, fired, lastEvent, calls, hist, ent,
                 writesLeft, recVars, infCfg, baseInf, iwait, infSetup,
                 iStopL, sink>>

\* the exporter worker takes one item: event_to_json and the write, or
\* the end of the thread
InfMap ==
  /\ ipc = "running"
  /\ iq # << >>
  /\ iq' = Tail(iq)
  /\ IF Head(iq) = StopEvent
     THEN ipc' = "stopped" /\ points' = points
     ELSE /\ points' =
               points \cup ({event_to_json(EmptyConf, Head(iq))} \ {NoPoint})
          /\ ipc' = ipc
  /\ UNCHANGED <<decVars, recVars, infCfg, baseInf, iwait, infSetup, iStopL,
                 sink>>

\* lines 229-233
InfShutdown ==
  /\ iStopL = "due"
  /\ iStopL' = "done"
  /\ iq' = Append(iq, StopEvent)
  /\ UNCHANGED <<decVars, recVars, infCfg, baseInf, ipc, iwait, points,
                 infSetup, sink>>

\* ---------------------------------------------------------- specification
InitDecider ==
  /\ now = 1
  /\ states = [e \in EntityIds |-> NoState]
  /\ pc = "idle"
  /\ pending = NoEvent
  /\ call = NoCall
  /\ fired = 0
  /\ lastEvent = NoEvent
  /\ calls = 0
  /\ hist = [e \in EntityIds |-> NoHist]
  /\ ent = [hass |-> FALSE, entity_id |-> NoneId]

\* the recorder as constructed, while hass.state is `state`
InitRecorderAt(state) ==
  /\ rq = << >>
  /\ enq = 0
  /\ rpc = "connect"
  /\ rtries = 1
  /\ rcur = NoItem
  /\ dequeued = 0
  /\ acked = 0
  /\ dbevent = Unbound
  /\ rstat = NoStat
  /\ eventsTbl = {}
  /\ statesTbl = {}
  /\ nextId = 1
  /\ conn = "none"
  /\ dbReady = "unset"
  /\ notified = 0
  /\ hassStarted = "pending"
  /\ futError = FALSE
  /\ hassState = state
  /\ stopL = "none"
  /\ startL = "none"
  /\ jobs = {}
  /\ purgeTimer = 0
  /\ purges = 0

InitRecorder == InitRecorderAt("starting")

\* the exporter after `waited` passes of its waiting loop that found no
\* base component
InitExporterAt(waited) ==
  /\ baseInf = "absent"
  /\ ipc = IF infOn THEN "wait" ELSE "off"
  /\ iwait = waited
  /\ iq = << >>
  /\ points = {}
  /\ workers = 0
  /\ iStopL = "none"
  /\ sink \in IF infOn THEN {"down", "up"} ELSE {"up"}
  /\ ilogs = 0
  /\ itimers = 0

InitExporter == InitExporterAt(0)

\* no influxdb integration: the exporter never runs
ExporterOff ==
  /\ infOn = FALSE
  /\ jx = NoJson
  /\ sen = NoSensor
  /\ upd = NoUpdates
  /\ InitExporter

\* no recorder integration: the worker never runs
RecorderOff ==
  /\ InitRecorder
  /\ recOn = FALSE
  /\ purgeOn = FALSE
  /\ sched = NoSched
  /\ evLeft = 0
  /\ purgeLeft = 0

InitWrite ==
  /\ InitDecider
  /\ writesLeft = MaxWrites
  /\ RecorderOff
  /\ ExporterOff

NextWrite ==
  \/ StateAsyncSet
  \/ BusFire
  \/ Tick

SpecWrite == InitWrite /\ [][NextWrite]_vars

\* the recorder worker, fed by the events of other components
InitRec ==
  /\ InitDecider
  /\ writesLeft = 0
  /\ InitRecorder
  /\ recOn = TRUE
  /\ purgeOn \in BOOLEAN
  /\ sched = NoSched
  /\ evLeft = MaxEvents
  /\ purgeLeft = MaxPurges
  /\ ExporterOff

NextRec ==
  \/ EnvFire
  \/ RecConnect
  \/ ConnectionFailed
  \/ Register
  \/ HassStart
  \/ HassStop
  \/ NotifyHassStarted
  \/ Shutdown
  \/ RecStarted
  \/ AsyncPurge
  \/ RecGet
  \/ RecCommit

SpecRec == InitRec /\ [][NextRec]_vars

\* the worker thread keeps running: whenever it can take an item or make a
\* pass of the retry loop it eventually does
SpecRecLive == SpecRec /\ WF_vars(RecGet) /\ WF_vars(RecCommit)

\* the recorder's threads and callbacks keep running: the connection loop,
\* the jobs and listeners of the event loop, the wait for hass_started
SpecRecStart ==
  /\ SpecRec
  /\ WF_vars(RecConnect) /\ WF_vars(ConnectionFailed) /\ WF_vars(Register)
  /\ WF_vars(NotifyHassStarted) /\ WF_vars(Shutdown) /\ WF_vars(RecStarted)

\* the entity path, from an empty StateStore or from one that an earlier
\* state_async_set("sensor.temp", "20.0") at time 1 has filled
SeedState == State("sensor.temp", "20.0", EmptyAttrs, NoneT, NoneT, "fresh", 1)

SeedEvent ==
  [event_type |-> EVENT_STATE_CHANGED, entity_id |-> "sensor.temp",
   old_state |-> NoState, new_state |-> SeedState, time_fired |-> 1]

InitEntity ==
  \/ InitWrite
  \/ /\ now = 1
     /\ states = [e \in EntityIds |-> SeedState]
     /\ pc = "idle"
     /\ pending = NoEvent
     /\ call = [op |-> "state_async_set", entity_id |-> "sensor.temp",
                new_state |-> "20.0", last_changed |-> NoneT,
                last_updated |-> NoneT, at |-> NoneT, prev |-> NoState,
                result |-> "returned"]
     /\ fired = 1
     /\ lastEvent = SeedEvent
     /\ calls = 1
     /\ hist = [e \in EntityIds |-> HistAfter(NoHist, NoState, NoneT, NoneT)]
     /\ ent = [hass |-> FALSE, entity_id |-> NoneId]
     /\ writesLeft = MaxWrites
     /\ RecorderOff
     /\ ExporterOff

NextEntity ==
  \/ PlatformSetHass
  \/ PlatformSetEntityId
  \/ AsyncWriteHaState
  \/ AsyncUpdateHaState
  \/ BusFire
  \/ Tick

SpecEntity == InitEntity /\ [][NextEntity]_vars

\* the first purge time, for every configuration, clock reading and age of
\* the oldest row within the bounds
InitPurge ==
  /\ InitDecider
  /\ writesLeft = 0
  /\ InitRecorder
  /\ recOn = TRUE
  /\ purgeOn = TRUE
  /\ evLeft = 0
  /\ purgeLeft = 0
  /\ ExporterOff
  /\ sched \in
       [keep_days : 1..MaxKeepDays, purge_interval : 1..MaxPurgeInterval,
        now : {PurgeNow}, lag : {0, 1},
        oldest : {NoneT} \cup {PurgeNow - age : age \in (0 - 2)..MaxAge},
        run_time : {NoneT}, done : {FALSE}]

NextPurge == FirstPurgeTime

SpecPurge == InitPurge /\ [][NextPurge]_vars

\* event_to_json alone: one application to every event and configuration
\* of three families, which vary the filter, the attributes and the
\* measurement name
JsonEntityIds == {"sensor.temp", "light.lamp"}
JsonStates == {"19.0", "on", "foo", "inf", "", STATE_UNKNOWN, STATE_UNAVAILABLE}
JsonKeys == {"a", "a_str", "state", "value", "unit_of_measurement", "room"}
JsonAttrValues == {"5", "x", "inf", "12px"}

JsonState(entity_id, state, attributes, last_updated) ==
  State(entity_id, state, attributes, NoneT, last_updated, "fresh", 2)

JsonEvent(event_type, new_state) ==
  [event_type |-> event_type, entity_id |-> new_state.entity_id,
   old_state |-> NoState, new_state |-> new_state, time_fired |-> 2]

EventTypes == {EVENT_STATE_CHANGED, EVENT_HISTORIC_STATE_CHANGED}

\* attribute mappings of at most n keys, in every insertion order
AttrSeqs(n) ==
  UNION {{a \in [1..k -> JsonKeys \X JsonAttrValues] :
            \A i, j \in 1..k : i < j => a[i][1] # a[j][1]} : k \in 0..n}

FilterInputs ==
  {[conf |-> [EmptyConf EXCEPT !.whitelist_e = we, !.whitelist_d = wd,
                               !.blacklist_e = be, !.blacklist_d = bd],
    event |-> JsonEvent(ty, st)] :
     we \in SUBSET {"sensor.temp"}, wd \in SUBSET {"sensor"},
     be \in SUBSET {"sensor.temp"}, bd \in SUBSET {"sensor"},
     ty \in EventTypes,
     st \in {NoState} \cup
            {JsonState(e, v, EmptyAttrs, 1) : e \in JsonEntityIds,
                                              v \in JsonStates}}

AttrInputsJson ==
  {[conf |-> [EmptyConf EXCEPT !.tags_attributes = ta],
    event |-> JsonEvent(ty, JsonState("sensor.temp", v, a, 1))] :
     ta \in SUBSET {"room"}, ty \in EventTypes,
     v \in {"19.0", "on", "foo"}, a \in AttrSeqs(MaxAttrs)}

MeasurementInputs ==
  {[conf |-> [EmptyConf EXCEPT !.component_override = cm,
                               !.override_measurement = om,
                               !.default_measurement = dm,
                               !.tags = tg],
    event |-> JsonEvent(EVENT_STATE_CHANGED,
                        JsonState("sensor.temp", "19.0", a, 1))] :
     cm \in {PyNone, "cm"}, om \in {PyNone, "om"}, dm \in {PyNone, "dm"},
     tg \in {EmptyMap, MapPut(EmptyMap, "source", "hass")},
     a \in {EmptyAttrs, UnitAttrs, << <<"unit_of_measurement", "">> >>}}

InitJson ==
  /\ InitDecider
  /\ writesLeft = 0
  /\ RecorderOff
  /\ infOn = TRUE
  /\ InitExporter
  /\ \E in \in FilterInputs \cup AttrInputsJson \cup MeasurementInputs :
       jx = [conf |-> in.conf, event |-> in.event, point |-> NoPoint,
             done |-> FALSE]
  /\ sen = NoSensor
  /\ upd = NoUpdates

NextJson == JsonApply

SpecJson == InitJson /\ [][NextJson]_vars

\* the exporter's start alone: the wait for the base component, the probe
\* of the sink and its retries, the worker and its end
InitSetup ==
  /\ InitDecider
  /\ writesLeft = 0
  /\ RecorderOff
  /\ infOn = TRUE
  /\ jx = NoJson
  /\ sen = NoSensor
  /\ upd = NoUpdates
  /\ InitExporter

NextSetup ==
  \/ BaseInfStart
  \/ InfWait
  \/ SinkUp
  \/ InfSetup
  \/ InfRetry
  \/ HassStop
  \/ InfShutdown
  \/ InfMap

SpecSetup == InitSetup /\ [][NextSetup]_vars

\* the setup and its timers keep running
SpecSetupLive ==
  SpecSetup /\ WF_vars(InfWait) /\ WF_vars(InfSetup) /\ WF_vars(InfRetry)

\* one sensor and its updates: with every template configured, or with the
\* state template and one of the others
SensorConfigs ==
  {SensorProps} \cup {{"_state", p} : p \in SensorProps \ {"_state"}}

InitSensor ==
  /\ InitDecider
  /\ writesLeft = 0
  /\ RecorderOff
  /\ infOn = FALSE
  /\ jx = NoJson
  /\ InitExporter
  /\ \E t \in SensorConfigs : sen = NewSensor(t)
  /\ upd = NoUpdates

NextSensor == async_update

SpecSensor == InitSensor /\ [][NextSensor]_vars

\* the updates of one platform's entities: every call of async_device_update
\* is made once, for either entity, in any interleaving of the coroutines
InitUpdate ==
  /\ InitDecider
  /\ writesLeft = 0
  /\ RecorderOff
  /\ infOn = FALSE
  /\ jx = NoJson
  /\ sen = NoSensor
  /\ InitExporter
  /\ \E par \in BOOLEAN : upd = NewUpdates(par)

NextUpdate ==
  \/ \E c \in UpdateCalls, e \in UpdateEntities : DeviceUpdate(c, e)
  \/ \E c \in UpdateCalls : UpdateAcquire(c)
  \/ \E c \in UpdateCalls, outcome \in {"done", "raised"} :
       UpdateFinish(c, outcome)

SpecUpdate == InitUpdate /\ [][NextUpdate]_vars

\* the event loop runs every coroutine that can go on: an update under way
\* finishes, and the semaphore wakes its waiters in turn
SpecUpdateLive ==
  /\ SpecUpdate
  /\ \A c \in UpdateCalls :
       /\ WF_vars(\E outcome \in {"done", "raised"} : UpdateFinish(c, outcome))
       /\ SF_vars(UpdateAcquire(c))

\* the decider with both worker integrations configured and retention off,
\* set up while Home Assistant is running and the clock reads one instant;
\* the exporter is in the last pass of its wait for the base component
InitBoth ==
  /\ InitDecider
  /\ writesLeft = FullWrites
  /\ recOn = TRUE
  /\ purgeOn = FALSE
  /\ purgeLeft = 0
  /\ evLeft = 0
  /\ sched = NoSched
  /\ infOn = TRUE
  /\ jx = NoJson
  /\ sen = NoSensor
  /\ upd = NoUpdates
  /\ InitRecorderAt("running")
  /\ InitExporterAt(MaxWaitAttempts - 1)

NextBoth ==
  \/ StateAsyncSet
  \/ BusFire
  \/ RecConnect
  \/ ConnectionFailed
  \/ Register
  \/ HassStop
  \/ Shutdown
  \/ RecStarted
  \/ RecGet
  \/ RecCommit
  \/ BaseInfStart
  \/ InfWait
  \/ SinkUp
  \/ InfSetup
  \/ InfRetry
  \/ InfMap
  \/ InfShutdown

SpecBoth == InitBoth /\ [][NextBoth]_vars

\* the decider with one of the two worker integrations configured; the
\* workers share nothing but the bus they listen to
Init ==
  /\ InitDecider
  /\ writesLeft = FullWrites
  /\ \/ recOn = TRUE /\ purgeOn = TRUE /\ purgeLeft = MaxPurges
        /\ infOn = FALSE
     \/ recOn = FALSE /\ purgeOn = FALSE /\ purgeLeft = 0
        /\ infOn = TRUE
  /\ evLeft = 0
  /\ sched = NoSched
  /\ jx = NoJson
  /\ sen = NoSensor
  /\ upd = NoUpdates
  /\ InitRecorder
  /\ InitExporter

Next ==
  \/ StateAsyncSet
  \/ BusFire
  \/ Tick
  \/ RecConnect
  \/ ConnectionFailed
  \/ Register
  \/ HassStart
  \/ HassStop
  \/ NotifyHassStarted
  \/ Shutdown
  \/ RecStarted
  \/ AsyncPurge
  \/ RecGet
  \/ RecCommit
  \/ BaseInfStart
  \/ InfWait
  \/ SinkUp
  \/ InfSetup
  \/ InfRetry
  \/ InfMap
  \/ InfShutdown

Spec == Init /\ [][Next]_vars

\* -------------------------------------------------------------- properties
\* the event of the last state_async_set call: about to be fired, or fired
Ev == IF pc = "fire" THEN pending ELSE lastEvent

\* the last call was a state_async_set that got past line 477
Wrote == call.result \in {"running", "returned"} /\ call.entity_id # NoneId

\* it found a current state with a non-empty value
OnLive == Wrote /\ call.prev # NoState /\ call.prev.state # ""

LuEarlier == call.last_updated # NoneT
             /\ call.last_updated < call.prev.last_updated
LcEarlier == call.last_changed # NoneT
             /\ call.last_changed < call.prev.last_changed

\* C1: a write to a live entity with an explicit last_updated strictly
\* earlier than the current one leaves the StateStore entry untouched and
\* its event is historic_state_changed, old_state the live state and
\* new_state the out-of-order state.
C1_HistoricLeavesStore ==
  (OnLive /\ LuEarlier) =>
    /\ states[call.entity_id] = call.prev
    /\ Ev.event_type = EVENT_HISTORIC_STATE_CHANGED
    /\ Ev.old_state = call.prev
    /\ Ev.new_state.state = call.new_state
    /\ Ev.new_state.last_updated = call.last_updated
    /\ (call.result = "returned" => lastEvent = Ev /\ pc = "idle")

C1_Witness ==
  /\ call.result = "returned"
  /\ states["sensor.temp"].state = "20.0"
  /\ states["sensor.temp"].last_updated = 2
  /\ call.last_updated = 1
  /\ lastEvent.event_type = EVENT_HISTORIC_STATE_CHANGED
  /\ lastEvent.new_state.state = "19.0"
  /\ lastEvent.new_state.last_updated = 1

\* C2 as stated: along writes to one entity with strictly increasing explicit
\* last_updated, whatever the value, attributes and explicit last_changed,
\* every write is stored and fires state_changed.
C2_Original ==
  \A e \in EntityIds :
    (Wrote /\ call.entity_id = e /\ hist[e].incr) =>
      /\ states[e] = Ev.new_state
      /\ Ev.event_type = EVENT_STATE_CHANGED

\* C2 amended: the same, for writes whose explicit last_changed, when
\* supplied, is not strictly earlier than the last_changed of the entry the
\* write finds.
C2_IncreasingAccepted ==
  \A e \in EntityIds :
    (Wrote /\ call.entity_id = e /\ hist[e].incr /\ hist[e].lcOk) =>
      /\ states[e] = Ev.new_state
      /\ Ev.event_type = EVENT_STATE_CHANGED
      /\ Ev.new_state.state = call.new_state
      /\ Ev.new_state.last_updated = call.last_updated

C2_Witness ==
  /\ call.result = "returned"
  /\ hist["sensor.temp"].n = 2
  /\ hist["sensor.temp"].incr
  /\ hist["sensor.temp"].lcOk
  /\ call.last_changed # NoneT
  /\ call.prev.state = "19.0"
  /\ states["sensor.temp"].state = "20.0"

\* C3 as stated: the first write for an entity is stored and fires
\* state_changed without old_state, and each stored timestamp is the
\* caller's explicit one when supplied and "now" otherwise.
C3_FirstWriteVerbatim ==
  (call.result = "running" /\ call.prev = NoState) =>
    /\ states[call.entity_id] = Ev.new_state
    /\ Ev.event_type = EVENT_STATE_CHANGED
    /\ Ev.old_state = NoState
    /\ Ev.new_state.last_updated =
         (IF call.last_updated # NoneT THEN call.last_updated ELSE call.at)
    /\ Ev.new_state.last_changed =
         (IF call.last_changed # NoneT THEN call.last_changed ELSE call.at)

\* C4: a write to a live entity whose last_updated is absent or not earlier,
\* but whose explicit last_changed is strictly earlier than the current
\* one, is historic too: entry untouched, historic_state_changed fired with
\* old_state the live state.
C4_HistoricByLastChanged ==
  (OnLive /\ ~LuEarlier /\ LcEarlier) =>
    /\ states[call.entity_id] = call.prev
    /\ Ev.event_type = EVENT_HISTORIC_STATE_CHANGED
    /\ Ev.old_state = call.prev
    /\ Ev.new_state.last_changed = call.last_changed

C4_Witness ==
  /\ call.result = "returned"
  /\ OnLive
  /\ call.last_updated > call.prev.last_updated
  /\ LcEarlier
  /\ lastEvent.event_type = EVENT_HISTORIC_STATE_CHANGED

\* C5: a write to a live entity in which neither explicit timestamp is
\* strictly earlier than the current one overwrites the entry and fires
\* state_changed, old_state the previous entry and new_state the new one.
C5_AcceptedOverwrites ==
  (OnLive /\ ~LuEarlier /\ ~LcEarlier) =>
    /\ states[call.entity_id] = Ev.new_state
    /\ Ev.event_type = EVENT_STATE_CHANGED
    /\ Ev.old_state = call.prev
    /\ Ev.new_state.state = call.new_state

C5_Witness ==
  /\ call.result = "returned"
  /\ OnLive
  /\ call.last_updated = call.prev.last_updated
  /\ call.last_changed = call.prev.last_changed
  /\ call.new_state # call.prev.state
  /\ states[call.entity_id].state = call.new_state
  /\ lastEvent.old_state = call.prev

\* C6: every state_async_set call fires exactly one event, after the
\* StateStore decision is in place and before it returns.
C6_OneEventPerCall ==
  /\ pc = "idle" => fired = calls
  /\ pc = "fire" =>
        /\ fired = calls - 1
        /\ call.result = "running"
        /\ pending.event_type \in
             {EVENT_STATE_CHANGED, EVENT_HISTORIC_STATE_CHANGED}
        /\ states[pending.entity_id] =
             (IF pending.event_type = EVENT_STATE_CHANGED
              THEN pending.new_state ELSE pending.old_state)
  /\ call.result = "returned" => lastEvent # NoEvent /\ pc = "idle"
  /\ call.result = "running" => pc = "fire"

C6_Witness ==
  /\ call.result = "returned"
  /\ fired = 2
  /\ lastEvent.old_state.state = lastEvent.new_state.state
  /\ lastEvent.old_state.attributes = lastEvent.new_state.attributes
  /\ lastEvent.old_state.state = "20.0"

\* C7: no step of the recorder worker or of the exporter changes the
\* StateStore; the store changes only in the step in which state_async_set
\* runs.
C7_OnlyDeciderWritesStore ==
  [][states' # states =>
       /\ pc = "idle"
       /\ pc' = "fire"
       /\ call'.op = "state_async_set"
       /\ call'.result = "running"]_vars

\* the store holds a state while the recorder has committed its event and
\* run a purge, or the exporter has mapped it to a point
C7_Witness ==
  /\ states["sensor.temp"] # NoState
  /\ \/ eventsTbl # {} /\ purges > 0
     \/ points # {}

\* C8 as stated: an accepted write to an existing entity with the same value
\* and no explicit last_changed keeps the stored last_changed, while
\* last_updated is set by the write.
C8_SameValueKeepsLastChanged ==
  (call.result = "running" /\ call.prev # NoState
     /\ Ev.event_type = EVENT_STATE_CHANGED
     /\ call.new_state = call.prev.state /\ call.last_changed = NoneT) =>
    /\ states[call.entity_id].last_changed = call.prev.last_changed
    /\ states[call.entity_id].last_updated =
         (IF call.last_updated # NoneT THEN call.last_updated ELSE call.at)

\* C9: a write through a HistoricEntity without entity_id raises at once
\* (NoEntitySpecifiedError; RuntimeError when hass is missing as well, which
\* is checked first), the StateStore keeps its content and no event fires.
C9_NoEntityIdFailsFast ==
  [][(writesLeft' < writesLeft /\ ent.entity_id = NoneId) =>
       /\ call'.op \in {"async_write_ha_state", "async_update_ha_state"}
       /\ call'.result =
            (IF ent.hass THEN "NoEntitySpecifiedError" ELSE "RuntimeError")
       /\ states' = states
       /\ fired' = fired
       /\ pending' = pending
       /\ pc' = "idle"]_vars

C9_Witness ==
  /\ call.op = "async_update_ha_state"
  /\ call.result = "NoEntitySpecifiedError"
  /\ ent.hass
  /\ ent.entity_id = NoneId
  /\ states["sensor.temp"].state = "20.0"
  /\ fired = 1
  /\ pc = "idle"

\* C10 as stated: every item the worker takes from the queue is acknowledged
\* exactly once, and the worker goes on to the next item.
C10_EveryItemAcked ==
  /\ acked <= dequeued
  /\ dequeued <= acked + 1
  /\ rpc \in {"get", "stopped", "crashed"} => acked = dequeued
  /\ rpc = "commit" => rcur # NoItem /\ dequeued = acked + 1

\* rows committed for the item the worker's record is about
RowsOf(id) ==
  [events |-> {r \in eventsTbl : r.src = id},
   states |-> {r \in statesTbl : r.src = id}]

\* C11: an event whose commit ends in OperationalError on every pass gets
\* exactly ten passes, a sleep before each but the first, then one "Giving
\* up" line; no row of it is stored, it is acknowledged and the worker is
\* back at the queue.
C11_TenAttemptsThenGiveUp ==
  /\ rstat.end = "running" =>
       /\ rpc = "commit"
       /\ rstat.opFails = rstat.attempts
       /\ rstat.attempts < 10
       /\ rstat.sleeps = IF rstat.attempts = 0 THEN 0 ELSE rstat.attempts - 1
       /\ rstat.giveUps = 0
       /\ RowsOf(rstat.id) = [events |-> {}, states |-> {}]
  /\ rstat.opFails = 10 <=> rstat.end = "gave up"
  /\ rstat.end = "gave up" =>
       /\ rstat.attempts = 10
       /\ rstat.sleeps = 9
       /\ rstat.giveUps = 1
       /\ RowsOf(rstat.id) = [events |-> {}, states |-> {}]
       /\ rpc = "get"
       /\ rcur = NoItem
       /\ acked = dequeued
  /\ rstat.end # "gave up" => rstat.giveUps = 0

\* the worker gave up on the first of two queued events
C11_Witness ==
  /\ rstat.end = "gave up"
  /\ rstat.id = 1
  /\ Len(rq) = 1
  /\ rq[1].kind = "event"

\* C12 as stated: an item for which a serialization warning was logged got
\* exactly one pass and no sleep, left no row, is acknowledged and the
\* worker is back at the queue.
C12_UnserializableDropped ==
  rstat.warnings > 0 =>
    /\ rstat.attempts = 1
    /\ rstat.sleeps = 0
    /\ RowsOf(rstat.id) = [events |-> {}, states |-> {}]
    /\ rpc = "get"
    /\ acked = dequeued

\* C13 as stated: of every state_changed or historic_state_changed event
\* either the event row and the state row linked to it are both stored, or
\* neither is.
C13_EventAndStateTogether ==
  \A id \in 1..enq :
    LET r == RowsOf(id)
    IN /\ \A st \in r.states :
            \E e \in r.events : st.event_id = e.event_id
       /\ \A e \in r.events :
            e.event_type \in {EVENT_STATE_CHANGED,
                              EVENT_HISTORIC_STATE_CHANGED}
              => r.states # {}

\* C14: whatever passes the worker makes for one event, at most one event
\* row and at most one state row of it are ever stored.
C14_AtMostOneRowPerEvent ==
  \A id \in 1..enq :
    /\ Cardinality(RowsOf(id).events) <= 1
    /\ Cardinality(RowsOf(id).states) <= 1

\* an event stored, with its state row, after passes that failed
C14_Witness ==
  /\ rstat.end = "ok"
  /\ rstat.opFails >= 2
  /\ Cardinality(RowsOf(rstat.id).events) = 1
  /\ Cardinality(RowsOf(rstat.id).states) = 1

\* C15: the worker makes at most ten connection passes, sleeping before
\* each but the first.  After ten failures it has dequeued nothing, is
\* gone, and connection_failed runs once (async_db_ready False, one
\* notification), while a write through state_async_set stays possible.
\* After a pass that succeeded async_db_ready is resolved to True only and
\* no failure is signalled.
C15_ConnectOrSignalFailure ==
  /\ rpc = "connect" =>
       /\ rstat.attempts < 10
       /\ rstat.sleeps = IF rstat.attempts = 0 THEN 0 ELSE rstat.attempts - 1
       /\ dequeued = 0
       /\ dbReady = "unset"
       /\ notified = 0
       /\ jobs = {}
  /\ rpc = "failed" =>
       /\ rstat.attempts = 10
       /\ rstat.sleeps = 9
       /\ dequeued = 0
       /\ conn = "none"
       /\ \/ jobs = {"connection_failed"} /\ dbReady = "unset"
             /\ notified = 0
          \/ jobs = {} /\ dbReady = "false" /\ notified = 1
       /\ (pc = "idle" /\ writesLeft > 0) => ENABLED StateAsyncSet
       /\ pc = "fire" => ENABLED BusFire
  /\ rpc \notin {"connect", "failed"} =>
       /\ conn # "none"
       /\ notified = 0
       /\ \/ jobs = {"register"} /\ dbReady = "unset"
          \/ jobs = {} /\ dbReady = "true"

\* all ten passes failed, the failure was signalled, and a write went
\* through
C15_Witness ==
  /\ rpc = "failed"
  /\ dbReady = "false"
  /\ notified = 1
  /\ states["sensor.temp"] # NoState
  /\ fired = 1

\* C16: having dequeued the stop sentinel the worker has closed the
\* connection, acknowledged the sentinel and ended; the sentinel is the last
\* item it dequeued, and no row stems from an item enqueued after it.
C16_StopSentinelEndsWorker ==
  rstat.end = "stop" =>
    /\ rpc = "stopped"
    /\ conn = "closed"
    /\ acked = dequeued
    /\ dequeued = rstat.id
    /\ \A i \in 1..Len(rq) : rq[i].id > rstat.id
    /\ \A r \in eventsTbl : r.src < rstat.id
    /\ \A r \in statesTbl : r.src < rstat.id

\* the worker ended at the sentinel with an event behind it in the queue
C16_Witness ==
  /\ rstat.end = "stop"
  /\ rpc = "stopped"
  /\ rq # << >>
  /\ rq[1].kind = "event"
  /\ eventsTbl # {}

\* C17: the worker holds at most one item, takes the items in the order
\* they were enqueued, takes the next one only after it acknowledged the one
\* before, and the event rows are keyed in the order of their events.
C17_OneItemFifo ==
  /\ dequeued <= acked + 1
  /\ rpc = "commit" => rcur.id = dequeued /\ acked = dequeued - 1
  /\ rpc = "get" => acked = dequeued
  /\ \A i \in 1..Len(rq) : rq[i].id = dequeued + i
  /\ \A r \in eventsTbl : r.src <= dequeued
  /\ \A r \in statesTbl : r.src <= dequeued
  /\ \A e1, e2 \in eventsTbl :
       e1.src < e2.src <=> e1.event_id < e2.event_id

\* two events stored, the second one after passes that failed
C17_Witness ==
  /\ Cardinality(eventsTbl) = 2
  /\ rstat.opFails > 0
  /\ rstat.end = "ok"
  /\ rq # << >>

\* the worker is connected, past hass_started and has not ended
Serving == rpc \in {"get", "commit"}

\* item n is in the queue or in hand, and no stop sentinel is ahead of it
Waiting(n) ==
  /\ acked < n
  /\ n <= enq
  /\ \A i \in 1..Len(rq) : rq[i].kind = "stop" => rq[i].id >= n

StopQueued == \E i \in 1..Len(rq) : rq[i].kind = "stop"

\* C18 as stated: with the worker serving, every item not behind the stop
\* sentinel is eventually acknowledged, and once the sentinel is queued the
\* worker eventually ends at it.
C18_AckedAndStopped ==
  /\ \A n \in 1..(MaxEvents + MaxPurges + 1) :
       (Serving /\ Waiting(n)) ~> (acked >= n)
  /\ (Serving /\ StopQueued) ~> (rpc = "stopped")

PurgesQueued == Cardinality({i \in 1..Len(rq) : rq[i].kind = "purge"})

\* the worker got past hass_started with Home Assistant started
PastStartup ==
  \/ rpc \in {"get", "commit", "crashed"}
  \/ rpc = "stopped" /\ hassStarted = "none"

\* C19 as stated: a timer for the next purge is pending only when every
\* purge enqueued so far has run in the worker.
C19_Original ==
  purgeTimer > 0 => PurgesQueued = 0

\* C19 amended: with retention enabled one timer is set at startup;
\* the callback of each expiry enqueues one PurgeTask and sets the next
\* timer at once, whether or not that purge has run; never is more than
\* one timer pending.
C19_OneTimerReArmedAtExpiry ==
  /\ purgeTimer <= 1
  /\ purgeTimer = 1 <=> (purgeOn /\ PastStartup)
  /\ PurgesQueued + purges + purgeLeft = MaxPurges
  /\ ~(purgeOn /\ PastStartup) => purgeLeft = MaxPurges

\* the timer of the next purge is pending while the purge just enqueued
\* has not run
C19_Witness ==
  /\ purgeTimer = 1
  /\ PurgesQueued = 1
  /\ purges = 0
  /\ purgeLeft = MaxPurges - 1

\* oldest.time_fired + keep_days + purge_interval, or now + purge_interval
\* for an empty log
RawRunTime ==
  IF sched.oldest = NoneT
  THEN sched.now + sched.lag + Days(sched.purge_interval)
  ELSE sched.oldest + Days(sched.keep_days + sched.purge_interval)

\* C20: the first purge time is that value clamped into the window from
\* now + 30 minutes to now + purge_interval days; so it is never later than
\* keep_days + purge_interval days from now.
C20_FirstPurgeInWindow ==
  sched.done =>
    LET earliest == sched.now + 1
        latest == sched.now + sched.lag + Days(sched.purge_interval)
    IN /\ sched.run_time >= earliest
       /\ sched.run_time <= latest
       /\ sched.run_time <= sched.now + sched.lag
                              + Days(sched.keep_days + sched.purge_interval)
       /\ RawRunTime < earliest => sched.run_time = earliest
       /\ RawRunTime > latest => sched.run_time = latest
       /\ (earliest <= RawRunTime /\ RawRunTime <= latest)
            => sched.run_time = RawRunTime

\* a log whose oldest row puts the purge strictly inside the window
C20_Witness ==
  /\ sched.done
  /\ sched.oldest # NoneT
  /\ sched.run_time = RawRunTime
  /\ sched.run_time > sched.now + 1
  /\ sched.run_time < sched.now + sched.lag + Days(sched.purge_interval)

\* one application of event_to_json has returned a point
Exported == jx.done /\ jx.point # NoPoint

Dropped(conf, state) ==
  \/ state = NoState
  \/ state.state = ""
  \/ state.state = STATE_UNKNOWN
  \/ state.state = STATE_UNAVAILABLE
  \/ state.entity_id \in conf.blacklist_e
  \/ DomainOf(state.entity_id) \in conf.blacklist_d
  \/ /\ conf.whitelist_e \cup conf.whitelist_d # {}
     /\ state.entity_id \notin conf.whitelist_e
     /\ DomainOf(state.entity_id) \notin conf.whitelist_d

\* C22: event_to_json returns no point exactly when new_state is absent,
\* its value is empty, unknown or unavailable, the entity or its domain is
\* excluded, or an include set is configured and neither the entity nor its
\* domain is in one; exclusion wins over inclusion, and excluding the
\* domain sensor drops every sensor.* event.
C22_DroppedExactlyWhenFiltered ==
  jx.done =>
    /\ jx.point = NoPoint <=> Dropped(jx.conf, jx.event.new_state)
    /\ ("sensor" \in jx.conf.blacklist_d
          /\ jx.event.new_state # NoState
          /\ DomainOf(jx.event.new_state.entity_id) = "sensor")
         => jx.point = NoPoint

\* an entity that is both included by id and excluded by domain is dropped
C22_Witness ==
  /\ jx.done
  /\ jx.point = NoPoint
  /\ jx.event.new_state.state = "19.0"
  /\ jx.event.new_state.entity_id \in jx.conf.whitelist_e
  /\ jx.conf.blacklist_e = {}
  /\ DomainOf(jx.event.new_state.entity_id) \in jx.conf.blacklist_d

\* C23 as stated: no numeric field of an exported point is NaN or an
\* infinity, the 'value' field of the state's value included.
C23_NoNonFiniteField ==
  Exported =>
    \A k \in DOMAIN jx.point.fields :
      jx.point.fields[k].t = "num" => IsFinite(jx.point.fields[k].v)

\* the attributes of the exported state that are to become fields
FieldAttrs ==
  {i \in 1..Len(jx.event.new_state.attributes) :
     LET kv == jx.event.new_state.attributes[i]
     IN /\ kv[1] \notin jx.conf.tags_attributes
        /\ ~(kv[1] = "unit_of_measurement" /\ jx.point.measurement = kv[2])}

\* the fields hold the attribute: as a float under its key, or as its
\* string form under <key>_str, the key possibly with the "_" of line 199
Recovered(fields, key, value) ==
  \/ /\ Parses(value)
     /\ \E f \in {key, key \o "_"} \cap DOMAIN fields :
          fields[f] = Num(FloatOf[value])
  \/ \E f \in {key \o "_str", key \o "__str"} \cap DOMAIN fields :
       fields[f] = Str(value)

\* C24 as stated: every attribute of an exported state that is no tag and
\* not the unit used as measurement name is found in the point's fields,
\* as a numeric field or as a <key>_str field with its string form.
C24_EveryAttributeRecovered ==
  Exported =>
    \A i \in FieldAttrs :
      Recovered(jx.point.fields, jx.event.new_state.attributes[i][1],
                jx.event.new_state.attributes[i][2])

\* C25 as stated: an exported point has only 'value' when the state's value
\* parses as a float, 'state' and 'value' when only the coercion helper
\* succeeds, only 'state' when both fail.
C25_StateAndValueFields ==
  Exported =>
    LET v == jx.event.new_state.state
        f == jx.point.fields
    IN /\ Parses(v) =>
            /\ "value" \in DOMAIN f /\ f["value"] = Num(FloatOf[v])
            /\ "state" \notin DOMAIN f
       /\ (~Parses(v) /\ StateAsNumberOk(v)) =>
            /\ "value" \in DOMAIN f /\ f["value"] = Num(state_as_number(v))
            /\ "state" \in DOMAIN f /\ f["state"] = Str(v)
       /\ (~Parses(v) /\ ~StateAsNumberOk(v)) =>
            /\ "state" \in DOMAIN f /\ f["state"] = Str(v)
            /\ "value" \notin DOMAIN f
       /\ {"state", "value"} \cap DOMAIN f # {}

\* the same attributes in another insertion order
Reordered(attributes) ==
  {[i \in 1..Len(attributes) |-> attributes[p[i]]] :
     p \in {q \in [1..Len(attributes) -> 1..Len(attributes)] :
              \A i, j \in 1..Len(attributes) : i # j => q[i] # q[j]}}

\* C26 as stated: two events equal as values, their attributes compared as
\* mappings, give the same point.
C26_SamePointInAnyOrder ==
  jx.done =>
    \A a \in Reordered(jx.event.new_state.attributes) :
      event_to_json(jx.conf, [jx.event EXCEPT !.new_state.attributes = a])
        = jx.point

\* one call of _setup
SetupRuns == ipc = "probe" /\ ipc' # "probe"

\* C27: a _setup that finds the sink unreachable logs, schedules exactly
\* one retry, starts no worker and returns; a worker is started only by a
\* _setup whose probe succeeded, and at most once; once the sink is
\* reachable the worker is eventually started.
C27_RetryUntilReachableThenOneWorker ==
  /\ [][(SetupRuns /\ sink = "down") =>
          /\ ilogs' = ilogs + 1
          /\ itimers' = itimers + 1
          /\ workers' = workers
          /\ ipc' = "retry"]_vars
  /\ [][workers' # workers =>
          /\ SetupRuns
          /\ sink = "up"
          /\ workers = 0
          /\ workers' = 1]_vars
  /\ [](itimers <= 1 /\ (itimers = 1 <=> ipc = "retry"))
  /\ (sink = "up" ~> workers = 1)

\* the worker runs after one failed attempt and its retry
C27_Witness ==
  /\ workers = 1
  /\ ilogs = 1
  /\ itimers = 0
  /\ ipc = "running"

\* a worker sleeps between two attempts
RecorderSleeps == rpc \in {"connect", "commit"} /\ rtries > 1
ExporterSleeps == ipc \in {"wait", "retry"}

C29_TemplateErrorResolvesToUnknown ==
  \A p \in sen.templates :
    /\ sen.last[p] = "transient" =>
         sen.props[p] = BaseDefault(p) /\ sen.warnings[p] = 1
    /\ sen.last[p] = "error" =>
         sen.props[p] = BaseDefault(p) /\ sen.errors[p] = 1

\* C30: the StateStore entry of an entity changes only in a write that
\* fires state_changed, and becomes that event's new_state, the event's
\* old_state being the entry held before; so after any sequence of writes
\* the entry is the new_state of the last state_changed event, and a write
\* that fires historic_state_changed leaves the entry as it was.
C30_StoreFollowsLiveEvents ==
  /\ [][(pc = "idle" /\ pc' = "fire") =>
          LET e == pending'.entity_id
          IN /\ pending'.old_state = states[e]
             /\ pending'.event_type = EVENT_STATE_CHANGED =>
                  states' = [states EXCEPT ![e] = pending'.new_state]
             /\ pending'.event_type = EVENT_HISTORIC_STATE_CHANGED =>
                  /\ states' = states
                  /\ states'[e] # pending'.new_state]_vars
  /\ [][states' # states =>
          /\ pc = "idle" /\ pc' = "fire"
          /\ pending'.event_type = EVENT_STATE_CHANGED]_vars
  /\ [][fired' # fired =>
          /\ lastEvent' = [pending EXCEPT !.time_fired = now]
          /\ states' = states]_vars
  /\ [](lastEvent # NoEvent =>
          LET e == lastEvent.entity_id
          IN /\ lastEvent.event_type = EVENT_STATE_CHANGED =>
                  states[e] = lastEvent.new_state
             /\ lastEvent.event_type = EVENT_HISTORIC_STATE_CHANGED =>
                  /\ states[e] = lastEvent.old_state
                  /\ states[e] # lastEvent.new_state)

\* a live write followed by a historic one: the entry is still the first
\* event's new_state
C30_Witness ==
  /\ fired = 2
  /\ pc = "idle"
  /\ lastEvent.event_type = EVENT_HISTORIC_STATE_CHANGED
  /\ states[lastEvent.entity_id] = lastEvent.old_state
  /\ lastEvent.old_state # NoState

\* the last call found a current state whose value is the empty string
OnEmpty == Wrote /\ call.prev # NoState /\ call.prev.state = ""

\* C31: a write to an entity whose current state has the empty value is
\* accepted whatever its timestamps are: it replaces the StateStore entry
\* and fires state_changed.
C31_EmptyValueAcceptsEveryWrite ==
  (OnEmpty /\ Ev # NoEvent) =>
    /\ Ev.event_type = EVENT_STATE_CHANGED
    /\ states[call.entity_id] = Ev.new_state
    /\ Ev.old_state = call.prev

\* such a write with a last_updated strictly earlier than the current one
C31_Witness ==
  /\ OnEmpty
  /\ LuEarlier
  /\ pc = "idle"
  /\ lastEvent.event_type = EVENT_STATE_CHANGED
  /\ states[call.entity_id].last_updated = call.last_updated

\* C32: a write with an explicit last_updated to an entity whose current
\* state has a non-empty value never lowers the last_updated of the
\* StateStore entry; so it never decreases over a sequence of writes that
\* all give a last_updated and a non-empty value.
C32_LastUpdatedNeverDecreases ==
  [][\A e \in EntityIds :
       (/\ pc = "idle" /\ pc' = "fire"
        /\ call'.entity_id = e
        /\ call'.last_updated # NoneT
        /\ states[e] # NoState
        /\ states[e].state # "")
         => states'[e].last_updated >= states[e].last_updated]_vars

\* a second write with a later last_updated has replaced the entry
C32_Witness ==
  /\ OnLive
  /\ call.last_updated # NoneT
  /\ call.last_updated > call.prev.last_updated
  /\ states[call.entity_id].last_updated = call.last_updated
  /\ states[call.entity_id].state # ""

\* C33 as stated: every stored state row carries the event_id of the event
\* row stored for the same event, and never that of another event's row.
C33_StateRowLinkedToOwnEvent ==
  \A st \in statesTbl :
    /\ \E e \in eventsTbl : e.event_id = st.event_id /\ e.src = st.src
    /\ \A e \in eventsTbl : e.event_id = st.event_id => e.src = st.src

\* C34 as stated: a worker that has ended on a shutdown path has closed the
\* storage connection and acknowledged the stop sentinel, also when Home
\* Assistant stops before it has started.
C34_StoppedMeansClosedAndAcked ==
  rpc = "stopped" =>
    /\ conn = "closed"
    /\ rstat.end = "stop"
    /\ acked = dequeued
    /\ ~StopQueued

\* C35 as stated, second half: a worker that waits for the hass_started
\* future is always released, whichever of start and stop comes first and
\* whenever the register callback runs.
C35_WaitingWorkerReleased == (rpc = "wait_started") ~> (rpc # "wait_started")

\* C35, first half: set_result is never called on a resolved future
FutureResolvedOnce == futError = FALSE

\* the calls that are running the update of entity e
InFlight(e) ==
  {c \in UpdateCalls : upd.of[c] = e /\ upd.at[c] = "updating"}

\* C36: an entity has at most one update in flight; a call that finds
\* _update_staged set returns at once and changes nothing; an update that
\* returns or raises clears _update_staged and gives the semaphore slot back;
\* so a staged update always ends and a waiting call always gets its turn.
C36_OneUpdateInFlightAndReleased ==
  /\ [](\A e \in UpdateEntities : Cardinality(InFlight(e)) <= 1)
  /\ [][\A c \in UpdateCalls :
          (upd.at[c] = "idle" /\ upd'.at[c] # "idle"
             /\ upd.staged[upd'.of[c]])
          => /\ upd'.at[c] = "returned"
             /\ upd'.staged = upd.staged
             /\ upd'.sem = upd.sem]_vars
  /\ [][\A c \in UpdateCalls :
          (upd.at[c] = "updating" /\ upd'.at[c] # "updating")
          => /\ ~upd'.staged[upd.of[c]]
             /\ upd.par => upd'.sem = upd.sem + 1]_vars
  /\ \A e \in UpdateEntities : upd.staged[e] ~> ~upd.staged[e]
  /\ \A c \in UpdateCalls : (upd.at[c] = "acquire") ~> (upd.at[c] = "updating")

\* with the semaphore configured, one call's update raised, a call made
\* meanwhile returned at once, and a later call runs the entity's update
C36_Witness ==
  /\ upd.par
  /\ \E c1, c2, c3 \in UpdateCalls :
       /\ upd.of[c1] = upd.of[c2] /\ upd.of[c2] = upd.of[c3]
       /\ upd.at[c1] = "raised"
       /\ upd.at[c2] = "returned"
       /\ upd.at[c3] = "updating"

\* C37 as stated: the exporter's worker and the base exporter's worker are
\* never active together, whenever the base exporter starts.
C37_NeverTwoExporterWorkers ==
  ~(baseInf = "running" /\ ipc = "running" /\ workers > 0)

====
